---- MODULE Spec2Model ----
(***************************************************************************)
(* G-APC: the local Data Store (utils/DataStore.ts, kept in                *)
(* src/app/utils/smsUtils.ts), the Backup Serializer and the Restore/Merge *)
(* Engine (utils/backupRestore.ts, kept in src/unnamed/part_010) over the  *)
(* asynchronous key-value storage adapter.                                 *)
(*                                                                         *)
(* JavaScript runs the handlers on one thread: a handler runs without      *)
(* interruption up to its next await of a storage call, so one action of   *)
(* the model is one such run.                                              *)
(***************************************************************************)
EXTENDS Integers, Sequences, FiniteSets, TLC

VARIABLES
  \* ---- DataStore instance and the module-level initialState object
  store,          \* the value this.store refers to
  initialState,   \* the module-level object initialState (smsUtils.ts:150)
  storeObj,       \* which object this.store is: "initial" (the initialState
                  \* object itself), "copy" ({...initialState}), "fresh"
                  \* (a JSON.parse result)
  shared,         \* "copy" only: the fields whose containers are still the
                  \* ones initialState holds
  heap,           \* the Device objects, by address
  isInitialized,
  savePromise,    \* 0 = null, else the id of the write the promise awaits
  \* ---- storage adapter
  storage,        \* key -> text
  pendingWrites,  \* setItem calls issued and not yet settled
  \* ---- callers
  awaiting,       \* mutator calls suspended in `await this.saveStore()`
  lastRet,        \* the calls that returned at the latest step of a store
                  \* method, and what they returned
  nCalls,         \* mutator calls made so far
  idCtr,          \* uuid source
  \* ---- history
  ver,            \* number of in-memory mutations so far
  diskVer,        \* ver of the snapshot the canonical document holds
  writesIssued,   \* setItem calls issued by saveStore so far
  writeFailed,    \* some storage write has failed
  deletedUsers,   \* the user ids deleteUser has removed
  \* ---- restoreFromBackup / createBackup / initialize in progress
  rst,            \* the restoreFromBackup call (its locals and position)
  ini,            \* the initialize call (its position)
  bak             \* what createBackup last returned, and what was true then

storeVars   == <<store, initialState, storeObj, shared, heap, isInitialized>>
saveVars    == <<savePromise, pendingWrites>>
callVars    == <<awaiting, lastRet, nCalls, idCtr>>
histVars    == <<ver, diskVer, writesIssued, writeFailed, deletedUsers>>
vars == <<store, initialState, storeObj, shared, heap, isInitialized,
          savePromise, storage, pendingWrites, awaiting, lastRet, nCalls,
          idCtr, ver, diskVer, writesIssued, writeFailed, deletedUsers, rst,
          ini, bak>>

-----------------------------------------------------------------------------
(* Bounds *)

MaxCalls == 3
MaxLogs == 2
MaxInits == 1
MaxLen == 3

-----------------------------------------------------------------------------
(* Small helpers *)

Range(s) == {s[i] : i \in DOMAIN s}

RECURSIVE SelectIdx(_, _, _)
\* the indices i >= from of s with keep[i], in order
SelectIdx(s, keep, from) ==
  IF from > Len(s) THEN <<>>
  ELSE (IF keep[from] THEN <<from>> ELSE <<>>) \o SelectIdx(s, keep, from + 1)

\* Array.prototype.filter
Filter(s, P(_)) ==
  LET keep == [i \in DOMAIN s |-> P(s[i])]
      idx  == SelectIdx(s, keep, 1)
  IN  [j \in 1..Len(idx) |-> s[idx[j]]]

\* Array.prototype.findIndex, 0 for -1
FindIndex(s, P(_)) ==
  IF \E i \in DOMAIN s : P(s[i])
  THEN CHOOSE i \in DOMAIN s : P(s[i]) /\ \A j \in 1..(i - 1) : ~P(s[j])
  ELSE 0

EmptyMap == [x \in {} |-> <<>>]

MapPut(m, key, val) ==
  [x \in DOMAIN m \cup {key} |-> IF x = key THEN val ELSE m[x]]

MapDel(m, key) == [x \in DOMAIN m \ {key} |-> m[x]]

\* { ...a, ...b }
Spread(a, b) ==
  [x \in DOMAIN a \cup DOMAIN b |-> IF x \in DOMAIN b THEN b[x] ELSE a[x]]

-----------------------------------------------------------------------------
(* The data model *)

STORE_KEY == <<"a", "p", "p", "_", "d", "a", "t", "a">>

Fields == {"devices", "users", "logs", "globalSettings"}

\* initialState, as the module is loaded
InitialStateValue ==
  [k |-> "app", has |-> Fields, devices |-> <<>>, users |-> <<>>,
   logs |-> EmptyMap,
   globalSettings |-> [adminNumber |-> <<>>, activeDeviceId |-> "none",
                       completedSteps |-> <<>>]]

\* JSON.parse('null'), and the value null anywhere
NullValue == [k |-> "null"]

\* globalSettings.activeDeviceId (undefined and null both read "none")
ActiveOf(gs) ==
  IF "activeDeviceId" \in DOMAIN gs THEN gs.activeDeviceId ELSE "none"

\* The memory the store's methods work on, as one value
Mem ==
  [store |-> store, init |-> initialState, obj |-> storeObj,
   shared |-> shared, heap |-> heap]

Has(m, f) == m.store.k = "app" /\ f \in m.store.has

\* A change made inside the container field f refers to (push, index
\* assignment, property assignment, delete): every holder of the container
\* sees it.
InPlace(m, f, v) ==
  [m EXCEPT !.store = [@ EXCEPT ![f] = v],
            !.init = IF m.obj = "initial" \/ (m.obj = "copy" /\ f \in m.shared)
                     THEN [@ EXCEPT ![f] = v] ELSE @]

\* this.store.f = v: the store object's field now refers to a new container.
Assign(m, f, v) ==
  [m EXCEPT !.store = [@ EXCEPT ![f] = v, !.has = @ \cup {f}],
            !.init = IF m.obj = "initial"
                     THEN [@ EXCEPT ![f] = v, !.has = @ \cup {f}] ELSE @,
            !.shared = @ \ {f}]

\* A new Device object
FreshAddr(m) ==
  CHOOSE n \in 1..(Cardinality(DOMAIN m.heap) + 1) :
    n \notin DOMAIN m.heap /\ \A j \in 1..(n - 1) : j \in DOMAIN m.heap

\* Device objects no array refers to any more are gone
Gc(m) ==
  LET live == (IF m.store.k = "app" THEN Range(m.store.devices) ELSE {})
              \cup Range(m.init.devices)
  IN  [m EXCEPT !.heap = [a \in DOMAIN m.heap \cap live |-> m.heap[a]]]

\* The devices of an in-memory AppData, as values
DevicesOf(m, s) == [i \in DOMAIN s.devices |-> m.heap[s.devices[i]]]

\* JSON.stringify of an in-memory value: the document
DocOf(m, s) ==
  IF s.k # "app" THEN s
  ELSE [k |-> "app", has |-> s.has, devices |-> DevicesOf(m, s),
        users |-> s.users, logs |-> s.logs,
        globalSettings |-> s.globalSettings]

\* JSON.stringify(this.store)
Serialize(m) == [t |-> "json", v |-> DocOf(m, m.store)]

-----------------------------------------------------------------------------
(* The synchronous part of each mutator: the memory it leaves and how it   *)
(* goes on -- "save" (await this.saveStore()), "ret" (return before any    *)
(* save) or "throw" (a TypeError on a null store or a missing field).      *)

Out(m, o) == [m |-> Gc(m), out |-> o]

addDeviceSync(m, id, name, au) ==
  IF ~Has(m, "devices") THEN Out(m, "throw")
  ELSE LET a  == FreshAddr(m)
           m1 == [m EXCEPT !.heap = MapPut(@, a,
                    [id |-> id, name |-> name, unitNumber |-> <<"0", "4">>,
                     password |-> <<"1", "2", "3", "4">>, authorizedUsers |-> au])]
       IN  Out(InPlace(m1, "devices", Append(m.store.devices, a)), "save")

updateDeviceSync(m, deviceId, updates) ==
  IF ~Has(m, "devices") THEN Out(m, "throw")
  ELSE LET ds    == m.store.devices
           index == FindIndex(ds, LAMBDA a : m.heap[a].id = deviceId)
       IN  IF index = 0 THEN Out(m, "ret")
           ELSE LET a  == FreshAddr(m)
                    m1 == [m EXCEPT !.heap = MapPut(@, a,
                             Spread(m.heap[ds[index]], updates))]
                IN  Out(InPlace(m1, "devices", [ds EXCEPT ![index] = a]),
                        "save")

deleteDeviceSync(m, deviceId) ==
  IF ~Has(m, "devices") THEN Out(m, "throw")
  ELSE IF ~\E a \in Range(m.store.devices) : m.heap[a].id = deviceId
  THEN Out(m, "ret")
  ELSE LET m1 == Assign(m, "devices",
                   Filter(m.store.devices, LAMBDA a : m.heap[a].id # deviceId))
       IN  IF ~Has(m1, "logs") THEN Out(m1, "throw")
           ELSE LET m2 == InPlace(m1, "logs", MapDel(m1.store.logs, deviceId))
                IN  IF ~Has(m2, "globalSettings") THEN Out(m2, "throw")
                    ELSE IF ActiveOf(m2.store.globalSettings) = deviceId
                    THEN Out(InPlace(m2, "globalSettings",
                           Spread(m2.store.globalSettings,
                             [activeDeviceId |->
                                IF Len(m2.store.devices) > 0
                                THEN m2.heap[m2.store.devices[1]].id
                                ELSE "none"])), "save")
                    ELSE Out(m2, "save")

setActiveDeviceSync(m, deviceId) ==
  IF ~Has(m, "devices") THEN Out(m, "throw")
  ELSE IF ~\E a \in Range(m.store.devices) : m.heap[a].id = deviceId
  THEN Out(m, "ret")
  ELSE IF ~Has(m, "globalSettings") THEN Out(m, "throw")
  ELSE Out(InPlace(m, "globalSettings",
             Spread(m.store.globalSettings, [activeDeviceId |-> deviceId])),
           "save")

addUserSync(m, id, name) ==
  IF ~Has(m, "users") THEN Out(m, "throw")
  ELSE Out(InPlace(m, "users",
             Append(m.store.users, [id |-> id, name |-> name])), "save")

updateUserSync(m, userId, updates) ==
  IF ~Has(m, "users") THEN Out(m, "throw")
  ELSE LET us    == m.store.users
           index == FindIndex(us, LAMBDA u : u.id = userId)
       IN  IF index = 0 THEN Out(m, "ret")
           ELSE Out(InPlace(m, "users",
                      [us EXCEPT ![index] = Spread(us[index], updates)]),
                    "save")

deleteUserSync(m, userId) ==
  IF ~Has(m, "users") THEN Out(m, "throw")
  ELSE LET m1 == Assign(m, "users",
                   Filter(m.store.users, LAMBDA u : u.id # userId))
       IN  IF ~Has(m1, "devices") THEN Out(m1, "throw")
           ELSE Out([m1 EXCEPT !.heap =
                      [a \in DOMAIN m1.heap |->
                         IF a \in Range(m1.store.devices)
                         THEN [m1.heap[a] EXCEPT !.authorizedUsers =
                                 Filter(@, LAMBDA u : u # userId)]
                         ELSE m1.heap[a]]], "save")

\* The first device with the id: Array.prototype.find, 0 for undefined
FindDevice(m, deviceId) ==
  LET index == FindIndex(m.store.devices, LAMBDA a : m.heap[a].id = deviceId)
  IN  IF index = 0 THEN 0 ELSE m.store.devices[index]

\* authorizeUserForDevice without the test of includes(userId)
authorizeUserForDeviceAlways(m, deviceId, userId) ==
  IF ~Has(m, "devices") THEN Out(m, "throw")
  ELSE LET a == FindDevice(m, deviceId)
       IN  IF a = 0 THEN Out(m, "ret")
           ELSE Out([m EXCEPT !.heap[a].authorizedUsers = Append(@, userId)],
                    "save")

authorizeUserForDeviceSync(m, deviceId, userId) ==
  IF ~Has(m, "devices") THEN Out(m, "throw")
  ELSE LET a == FindDevice(m, deviceId)
       IN  IF a = 0 THEN Out(m, "ret")
           ELSE IF userId \in Range(m.heap[a].authorizedUsers)
           THEN Out(m, "ret")
           ELSE Out([m EXCEPT !.heap[a].authorizedUsers = Append(@, userId)],
                    "save")

deauthorizeUserForDeviceSync(m, deviceId, userId) ==
  IF ~Has(m, "devices") THEN Out(m, "throw")
  ELSE LET a == FindDevice(m, deviceId)
       IN  IF a = 0 THEN Out(m, "ret")
           ELSE LET m1 == [m EXCEPT !.heap[a].authorizedUsers =
                             Filter(@, LAMBDA u : u # userId)]
                IN  IF userId \in Range(m.heap[a].authorizedUsers)
                    THEN Out(m1, "save") ELSE Out(m1, "ret")

LogCap == 200

\* the first n elements: Array.prototype.slice(0, n)
Slice0(s, n) == SubSeq(s, 1, IF Len(s) < n THEN Len(s) ELSE n)

\* deviceId "" stands for every blank or invalid device id
addDeviceLogSync(m, deviceId, logId) ==
  LET bucket == IF deviceId = "" THEN "system" ELSE deviceId
  IN  IF ~Has(m, "logs") THEN Out(m, "throw")
      ELSE LET old == IF bucket \in DOMAIN m.store.logs
                      THEN m.store.logs[bucket] ELSE <<>>
           IN  Out(InPlace(m, "logs",
                     MapPut(m.store.logs, bucket,
                            <<logId>> \o Slice0(old, LogCap - 1))), "save")

clearDeviceLogsSync(m, deviceId) ==
  IF deviceId = "" THEN Out(m, "ret")
  ELSE IF ~Has(m, "logs") THEN Out(m, "throw")
  ELSE IF deviceId \in DOMAIN m.store.logs
  THEN Out(InPlace(m, "logs", MapDel(m.store.logs, deviceId)), "save")
  ELSE Out(m, "ret")

updateGlobalSettingsSync(m, updates) ==
  IF m.store.k # "app" THEN Out(m, "throw")
  ELSE Out(Assign(m, "globalSettings",
             Spread(IF Has(m, "globalSettings")
                    THEN m.store.globalSettings ELSE EmptyMap, updates)),
           "save")

-----------------------------------------------------------------------------
(* saveStore and the storage adapter's writes *)

SetMem(m) ==
  /\ store' = m.store
  /\ initialState' = m.init
  /\ storeObj' = m.obj
  /\ shared' = m.shared
  /\ heap' = m.heap

\* The number of in-memory changes after the memory became m
VerAfter(m) == IF Serialize(m) # Serialize(Mem) THEN ver + 1 ELSE ver

\* saveStore() without the check of the slot: every call writes
saveStoreNoSlot(m, who) ==
  /\ writesIssued' = writesIssued + 1
  /\ savePromise' = writesIssued + 1
  /\ pendingWrites' = pendingWrites \cup
       {[id |-> writesIssued + 1, by |-> "saveStore", key |-> STORE_KEY,
         text |-> Serialize(m), ver |-> VerAfter(m)]}
  /\ awaiting' = Append(awaiting, [ver |-> VerAfter(m), who |-> who])

\* saveStore(), called with the memory m: with a write in flight the caller
\* gets the promise of that write; otherwise setItem is called with the
\* document as it is now, and the promise of that write is kept.
saveStore(m, who) ==
  IF savePromise # 0
  THEN /\ awaiting' = Append(awaiting, [ver |-> VerAfter(m), who |-> who])
       /\ UNCHANGED <<savePromise, pendingWrites, writesIssued>>
  ELSE /\ writesIssued' = writesIssued + 1
       /\ savePromise' = writesIssued + 1
       /\ pendingWrites' = pendingWrites \cup
            {[id |-> writesIssued + 1, by |-> "saveStore", key |-> STORE_KEY,
              text |-> Serialize(m), ver |-> VerAfter(m)]}
       /\ awaiting' = Append(awaiting, [ver |-> VerAfter(m), who |-> who])

\* A call of a method of the store: n0 is the length the method noted before
\* its change (initialDeviceCount, initialLength)
Call(op, args, n0) == [op |-> op, args |-> args, n0 |-> n0]

Returned(c, val) == [op |-> c.op, args |-> c.args, val |-> val]

\* What a method returns when it returns before any save
EarlyRet(op) == IF op \in {"updateDevice", "updateUser"} THEN "null" ELSE "false"

\* What a method returns after `await this.saveStore()`, the memory being m by
\* then: "value" for an object, "throw" for a TypeError
RetAfterSave(c, m) ==
  CASE c.op = "deleteDevice" ->
         IF ~Has(m, "devices") THEN "throw"
         ELSE IF c.n0 # Len(m.store.devices) THEN "true" ELSE "false"
    [] c.op = "deleteUser" ->
         IF ~Has(m, "users") THEN "throw"
         ELSE IF Len(m.store.users) < c.n0 THEN "true" ELSE "false"
    [] c.op = "updateDevice" -> IF ~Has(m, "devices") THEN "throw" ELSE "value"
    [] c.op = "updateUser" -> IF ~Has(m, "users") THEN "throw" ELSE "value"
    [] c.op = "updateGlobalSettings" ->
         IF m.store.k # "app" THEN "throw" ELSE "value"
    [] c.op \in {"addDevice", "addUser", "addDeviceLog", "logSMSOperation"} ->
         "value"
    [] OTHER -> "true"

\* a step at which no call returns
NoReturn == [vers |-> {}, disk |-> 0, rets |-> {}]

DevicesLen == IF Has(Mem, "devices") THEN Len(store.devices) ELSE 0
UsersLen == IF Has(Mem, "users") THEN Len(store.users) ELSE 0

\* A mutator call c: its synchronous part r, then the save or the return
Mutator(r, c) ==
  /\ nCalls < MaxCalls
  /\ nCalls' = nCalls + 1
  /\ SetMem(r.m)
  /\ ver' = VerAfter(r.m)
  /\ IF r.out = "save"
     THEN /\ saveStore(r.m, c)
          /\ lastRet' = NoReturn
     ELSE /\ lastRet' = [vers |-> {}, disk |-> 0,
                         rets |-> {Returned(c, IF r.out = "throw" THEN "throw"
                                               ELSE EarlyRet(c.op))}]
          /\ UNCHANGED <<savePromise, pendingWrites, writesIssued, awaiting>>
  /\ deletedUsers' =
       IF c.op = "deleteUser" /\ Has(Mem, "users")
          /\ \E i \in DOMAIN store.users : store.users[i].id = c.args[1]
       THEN deletedUsers \cup {c.args[1]} ELSE deletedUsers
  /\ UNCHANGED <<isInitialized, storage, diskVer, writeFailed, rst, ini, bak>>

\* uuidv4() / generateUUID()
NewId(prefix) == prefix \o ToString(idCtr + 1)

KnownDeviceIds == {heap[a].id : a \in DOMAIN heap}
KnownUserIds ==
  IF store.k = "app" THEN {store.users[i].id : i \in DOMAIN store.users}
  ELSE {}
AbsentId == "zz"

NewNames == {<<"G">>}
NewAuthorized == {<<>>}
DeviceUpdates == {[name |-> <<"H">>], [id |-> "d1"]}
UserUpdates == {[name |-> "Ann2"], [id |-> "u1"]}
SettingsUpdates == {[adminNumber |-> <<"A", "1">>]}

AddDevice ==
  \E name \in NewNames, au \in NewAuthorized :
    /\ Mutator(addDeviceSync(Mem, NewId("n"), name, au),
               Call("addDevice", <<NewId("n")>>, 0))
    /\ idCtr' = idCtr + 1

UpdateDevice ==
  \E id \in KnownDeviceIds \cup {AbsentId}, u \in DeviceUpdates :
    /\ Mutator(updateDeviceSync(Mem, id, u), Call("updateDevice", <<id>>, 0))
    /\ UNCHANGED idCtr

DeleteDevice ==
  \E id \in KnownDeviceIds \cup {AbsentId} :
    /\ Mutator(deleteDeviceSync(Mem, id),
               Call("deleteDevice", <<id>>, DevicesLen))
    /\ UNCHANGED idCtr

SetActiveDevice ==
  \E id \in KnownDeviceIds \cup {AbsentId} :
    /\ Mutator(setActiveDeviceSync(Mem, id),
               Call("setActiveDevice", <<id>>, 0))
    /\ UNCHANGED idCtr

AddUser ==
  /\ Mutator(addUserSync(Mem, NewId("w"), "Ann"),
             Call("addUser", <<NewId("w")>>, 0))
  /\ idCtr' = idCtr + 1

UpdateUser ==
  \E id \in KnownUserIds \cup {AbsentId}, u \in UserUpdates :
    /\ Mutator(updateUserSync(Mem, id, u), Call("updateUser", <<id>>, 0))
    /\ UNCHANGED idCtr

DeleteUser ==
  \E id \in KnownUserIds \cup {AbsentId} :
    /\ Mutator(deleteUserSync(Mem, id), Call("deleteUser", <<id>>, UsersLen))
    /\ UNCHANGED idCtr

AuthorizeUserForDevice ==
  \E d \in KnownDeviceIds \cup {AbsentId},
     u \in KnownUserIds \cup deletedUsers \cup {AbsentId} :
    /\ Mutator(authorizeUserForDeviceSync(Mem, d, u),
               Call("authorizeUserForDevice", <<d, u>>, 0))
    /\ UNCHANGED idCtr

DeauthorizeUserForDevice ==
  \E d \in KnownDeviceIds \cup {AbsentId},
     u \in KnownUserIds \cup deletedUsers \cup {AbsentId} :
    /\ Mutator(deauthorizeUserForDeviceSync(Mem, d, u),
               Call("deauthorizeUserForDevice", <<d, u>>, 0))
    /\ UNCHANGED idCtr

AddDeviceLog ==
  \E d \in KnownDeviceIds \cup {""} :
    /\ Has(Mem, "logs") =>
         \A b \in DOMAIN store.logs : Len(store.logs[b]) < MaxLogs
    /\ Mutator(addDeviceLogSync(Mem, d, NewId("g")),
               Call("addDeviceLog", <<d>>, 0))
    /\ idCtr' = idCtr + 1

ClearDeviceLogs ==
  \E d \in KnownDeviceIds \cup {"", AbsentId} :
    /\ Mutator(clearDeviceLogsSync(Mem, d), Call("clearDeviceLogs", <<d>>, 0))
    /\ UNCHANGED idCtr

UpdateGlobalSettings ==
  \E u \in SettingsUpdates :
    /\ Mutator(updateGlobalSettingsSync(Mem, u),
               Call("updateGlobalSettings", <<>>, 0))
    /\ UNCHANGED idCtr

\* The write saveStore issued settles: the finally block empties the slot and
\* resolves the promise, and every caller awaiting it goes on and returns.  A
\* mutator returns its result; migrateLegacyData returns into initialize,
\* which marks the store initialized and returns -- into
\* forceReinitialization and restoreFromBackup when that made the call.
SaveSettles(w, ok) ==
  LET saving == {i \in DOMAIN ini : ini[i].pc = "saving"}
      left   == SelectIdx(ini, [i \in DOMAIN ini |-> i \notin saving], 1)
  IN  /\ w \in pendingWrites
      /\ w.by = "saveStore"
      /\ pendingWrites' = pendingWrites \ {w}
      /\ storage' = IF ok THEN MapPut(storage, w.key, w.text) ELSE storage
      /\ diskVer' = IF ok THEN w.ver ELSE diskVer
      /\ writeFailed' = (writeFailed \/ ~ok)
      /\ savePromise' = 0
      /\ awaiting' = <<>>
      /\ lastRet' =
           [vers |-> {awaiting[i].ver : i \in DOMAIN awaiting},
            disk |-> diskVer',
            rets |-> {Returned(awaiting[i].who,
                               RetAfterSave(awaiting[i].who, Mem)) :
                        i \in {j \in DOMAIN awaiting :
                                 awaiting[j].who.op # "migrateLegacyData"}}]
      /\ isInitialized' = (isInitialized \/ saving # {})
      /\ ini' = [j \in DOMAIN left |-> ini[left[j]]]
      /\ rst' = IF \E i \in saving : ini[i].by = "restore"
                THEN [rst EXCEPT !.pc = "done", !.result = "true"] ELSE rst
      /\ UNCHANGED <<store, initialState, storeObj, shared, heap, nCalls,
                     idCtr, ver, writesIssued, deletedUsers, bak>>

WriteSucceeds == \E w \in pendingWrites : SaveSettles(w, TRUE)

WriteFails == \E w \in pendingWrites : SaveSettles(w, FALSE)

-----------------------------------------------------------------------------
(* Text and JSON values.  A text is a sequence of characters; a value is   *)
(* what JSON.parse gives: [k |-> "null"], "bool" (b), "num" (cs, its       *)
(* digits), "str" (cs), "arr" (items), "obj" (fields, the <<key, value>>   *)
(* pairs in insertion order), "app", an AppData-shaped object, and         *)
(* "logsmap" (logs), the object an AppData's logs field refers to.         *)
(* The input alphabets hold no backslash, sign, fraction or exponent.      *)

Quote == "\""
Ws == {" ", "\n", "\t", "\r"}
Digits == {"0", "1", "2", "3", "4", "5", "6", "7", "8", "9"}

Fail == [ok |-> FALSE, v |-> NullValue, next |-> 0]
Ok(v, next) == [ok |-> TRUE, v |-> v, next |-> next]

\* String.prototype.substring(a - 1, b), for 1 <= a
Sub(s, a, b) == SubSeq(s, a, IF b > Len(s) THEN Len(s) ELSE b)

RECURSIVE SkipWs(_, _)
SkipWs(s, i) ==
  IF i <= Len(s) /\ s[i] \in Ws THEN SkipWs(s, i + 1) ELSE i

\* String.prototype.indexOf(pat, from), as a 1-based index, 0 for -1
RECURSIVE IndexFrom(_, _, _)
IndexFrom(s, pat, from) ==
  IF from + Len(pat) - 1 > Len(s) THEN 0
  ELSE IF SubSeq(s, from, from + Len(pat) - 1) = pat THEN from
  ELSE IndexFrom(s, pat, from + 1)

IndexOf(s, pat) == IndexFrom(s, pat, 1)

RECURSIVE LastIndexFrom(_, _, _)
LastIndexFrom(s, pat, from) ==
  IF from < 1 THEN 0
  ELSE IF from + Len(pat) - 1 <= Len(s)
          /\ SubSeq(s, from, from + Len(pat) - 1) = pat THEN from
  ELSE LastIndexFrom(s, pat, from - 1)

LastIndexOf(s, pat) == LastIndexFrom(s, pat, Len(s))

Includes(s, pat) == IndexOf(s, pat) # 0

\* String.prototype.trim
RECURSIVE TrimEnd(_)
TrimEnd(s) ==
  IF Len(s) > 0 /\ s[Len(s)] \in Ws THEN TrimEnd(SubSeq(s, 1, Len(s) - 1))
  ELSE s

Trim(s) == LET i == SkipWs(s, 1) IN TrimEnd(SubSeq(s, i, Len(s)))

\* the length of the run of digits that starts at i
RECURSIVE DigitRun(_, _)
DigitRun(s, i) ==
  IF i <= Len(s) /\ s[i] \in Digits THEN 1 + DigitRun(s, i + 1) ELSE 0

\* an object's field set: a repeated key keeps its place and takes the value
PutField(fields, key, v) ==
  LET i == FindIndex(fields, LAMBDA f : f[1] = key)
  IN  IF i = 0 THEN Append(fields, <<key, v>>)
      ELSE [fields EXCEPT ![i] = <<key, v>>]

HasField(fields, key) == \E i \in DOMAIN fields : fields[i][1] = key

GetField(fields, key) ==
  fields[CHOOSE i \in DOMAIN fields : fields[i][1] = key][2]

PString(s, j) ==
  LET q == IndexFrom(s, <<Quote>>, j + 1)
  IN  IF q = 0 THEN Fail
      ELSE IF \E x \in (j + 1)..(q - 1) : s[x] \in Ws \ {" "} THEN Fail
      ELSE Ok([k |-> "str", cs |-> SubSeq(s, j + 1, q - 1)], q + 1)

PNumber(s, j) ==
  LET n == IF s[j] = "0" THEN 1 ELSE DigitRun(s, j)
  IN  Ok([k |-> "num", cs |-> SubSeq(s, j, j + n - 1)], j + n)

PLiteral(s, j) ==
  IF Sub(s, j, j + 3) = <<"n", "u", "l", "l">> THEN Ok(NullValue, j + 4)
  ELSE IF Sub(s, j, j + 3) = <<"t", "r", "u", "e">>
  THEN Ok([k |-> "bool", b |-> TRUE], j + 4)
  ELSE IF Sub(s, j, j + 4) = <<"f", "a", "l", "s", "e">>
  THEN Ok([k |-> "bool", b |-> FALSE], j + 5)
  ELSE Fail

\* F of the value of the expression v
With(v, F(_)) == CHOOSE y \in {F(x) : x \in {v}} : TRUE

RECURSIVE PValue(_, _), PElems(_, _, _), PMembers(_, _, _)

\* the elements of an array from i on, after acc
PElems(s, i, acc) ==
  With(PValue(s, i), LAMBDA r :
    LET j == SkipWs(s, r.next)
    IN  IF ~r.ok \/ j > Len(s) THEN Fail
        ELSE IF s[j] = "," THEN PElems(s, j + 1, Append(acc, r.v))
        ELSE IF s[j] = "]"
        THEN Ok([k |-> "arr", items |-> Append(acc, r.v)], j + 1)
        ELSE Fail)

\* the members of an object from i on, after acc
PMembers(s, i, acc) ==
  LET j  == SkipWs(s, i)
      ks == IF j <= Len(s) /\ s[j] = Quote THEN PString(s, j) ELSE Fail
      c  == SkipWs(s, ks.next)
  IN  IF ~ks.ok \/ c > Len(s) \/ s[c] # ":" THEN Fail
      ELSE With(PValue(s, c + 1), LAMBDA r :
             LET e == SkipWs(s, r.next)
             IN  IF ~r.ok \/ e > Len(s) THEN Fail
                 ELSE IF s[e] = ","
                 THEN PMembers(s, e + 1, PutField(acc, ks.v.cs, r.v))
                 ELSE IF s[e] = "}"
                 THEN Ok([k |-> "obj",
                          fields |-> PutField(acc, ks.v.cs, r.v)], e + 1)
                 ELSE Fail)

PValue(s, i) ==
  LET j == SkipWs(s, i)
  IN  IF j > Len(s) THEN Fail
      ELSE IF s[j] = Quote THEN PString(s, j)
      ELSE IF s[j] \in Digits THEN PNumber(s, j)
      ELSE IF s[j] \in {"n", "t", "f"} THEN PLiteral(s, j)
      ELSE IF s[j] = "["
      THEN LET e == SkipWs(s, j + 1)
           IN  IF e <= Len(s) /\ s[e] = "]"
               THEN Ok([k |-> "arr", items |-> <<>>], e + 1)
               ELSE PElems(s, j + 1, <<>>)
      ELSE IF s[j] = "{"
      THEN LET e == SkipWs(s, j + 1)
           IN  IF e <= Len(s) /\ s[e] = "}"
               THEN Ok([k |-> "obj", fields |-> <<>>], e + 1)
               ELSE PMembers(s, j + 1, <<>>)
      ELSE Fail

\* JSON.parse of a sequence of characters: ok is FALSE where it throws
ParseChars(s) ==
  With(PValue(s, 1), LAMBDA r :
    IF r.ok /\ SkipWs(s, r.next) > Len(s) THEN r ELSE Fail)

\* typeof v === 'object' (null included)
IsObject(v) == v.k \in {"obj", "arr", "app", "logsmap", "null"}

\* the truthiness of a value
Truthy(v) ==
  CASE v.k = "null" -> FALSE
    [] v.k = "bool" -> v.b
    [] v.k = "num"  -> v.cs # <<"0">>
    [] v.k = "str"  -> v.cs # <<>>
    [] OTHER        -> TRUE

RECURSIVE IsPlain(_)
\* a value made of the generic kinds only, whose text the model spells out
IsPlain(v) ==
  CASE v.k \in {"null", "bool", "num", "str"} -> TRUE
    [] v.k = "arr" -> \A i \in DOMAIN v.items : IsPlain(v.items[i])
    [] v.k = "obj" -> \A i \in DOMAIN v.fields : IsPlain(v.fields[i][2])
    [] OTHER -> FALSE

RECURSIVE ToChars(_), JoinItems(_, _), JoinFields(_, _)

JoinItems(items, i) ==
  IF i > Len(items) THEN <<>>
  ELSE (IF i > 1 THEN <<",">> ELSE <<>>) \o ToChars(items[i])
       \o JoinItems(items, i + 1)

JoinFields(fields, i) ==
  IF i > Len(fields) THEN <<>>
  ELSE (IF i > 1 THEN <<",">> ELSE <<>>)
       \o <<Quote>> \o fields[i][1] \o <<Quote, ":">> \o ToChars(fields[i][2])
       \o JoinFields(fields, i + 1)

\* JSON.stringify of a plain value
ToChars(v) ==
  CASE v.k = "null" -> <<"n", "u", "l", "l">>
    [] v.k = "bool" -> IF v.b THEN <<"t", "r", "u", "e">>
                       ELSE <<"f", "a", "l", "s", "e">>
    [] v.k = "num"  -> v.cs
    [] v.k = "str"  -> <<Quote>> \o v.cs \o <<Quote>>
    [] v.k = "arr"  -> <<"[">> \o JoinItems(v.items, 1) \o <<"]">>
    [] v.k = "obj"  -> <<"{">> \o JoinFields(v.fields, 1) \o <<"}">>

\* JSON.stringify(v): the characters of a plain value; the text of any
\* other value is named by the value it spells
Stringify(v) ==
  IF IsPlain(v) THEN [t |-> "chars", cs |-> ToChars(v)]
  ELSE [t |-> "json", v |-> v]

\* JSON.parse of a text
ParseText(text) ==
  IF text.t = "json" THEN Ok(text.v, 0) ELSE ParseChars(text.cs)

\* the braces of a sequence of characters, in order: 1 for {, -1 for }
BraceChars(cs) ==
  LET b == Filter(cs, LAMBDA c : c \in {"{", "}"})
  IN  [i \in DOMAIN b |-> IF b[i] = "{" THEN 1 ELSE -1]

RECURSIVE Concat(_)
Concat(ss) == IF ss = <<>> THEN <<>> ELSE Head(ss) \o Concat(Tail(ss))

\* a set as a sequence, in some fixed order
RECURSIVE SetToSeq(_)
SetToSeq(S) ==
  IF S = {} THEN <<>>
  ELSE LET x == CHOOSE y \in S : TRUE IN <<x>> \o SetToSeq(S \ {x})

\* the braces of the text of an AppData document: the document's own, one
\* pair per device, user, log entry, the log mapping and the settings, and
\* whatever braces the device names hold
AppBraces(d) ==
  <<1>>
  \o (IF "devices" \in d.has
      THEN Concat([i \in DOMAIN d.devices |->
                     <<1>> \o BraceChars(d.devices[i].name) \o <<-1>>])
      ELSE <<>>)
  \o (IF "users" \in d.has
      THEN Concat([i \in DOMAIN d.users |-> <<1, -1>>]) ELSE <<>>)
  \o (IF "logs" \in d.has
      THEN LET bs == SetToSeq(DOMAIN d.logs)
           IN  <<1>>
               \o Concat([i \in DOMAIN bs |->
                    Concat([j \in DOMAIN d.logs[bs[i]] |-> <<1, -1>>])])
               \o <<-1>>
      ELSE <<>>)
  \o (IF "globalSettings" \in d.has THEN <<1, -1>> ELSE <<>>)
  \o <<-1>>

RECURSIVE Braces(_)
\* the braces of JSON.stringify(v), in order
Braces(v) ==
  CASE IsPlain(v) -> BraceChars(ToChars(v))
    [] v.k = "app" -> AppBraces(v)
    [] v.k = "logsmap" ->
         LET bs == SetToSeq(DOMAIN v.logs)
         IN  <<1>>
             \o Concat([i \in DOMAIN bs |->
                  Concat([j \in DOMAIN v.logs[bs[i]] |-> <<1, -1>>])])
             \o <<-1>>
    [] v.k = "arr" -> Concat([i \in DOMAIN v.items |-> Braces(v.items[i])])
    [] v.k = "obj" ->
         <<1>>
         \o Concat([i \in DOMAIN v.fields |->
              BraceChars(v.fields[i][1]) \o Braces(v.fields[i][2])])
         \o <<-1>>

-----------------------------------------------------------------------------
(* restoreFromBackup: boundary recovery and the parse tiers *)

RECURSIVE ScanBraces(_, _, _, _)
\* the brace balancing loop over the braces bs of a text, from i on:
\* lastValidPos as the number of braces up to the last return to depth 0
ScanBraces(bs, i, braceCount, lastValid) ==
  IF i > Len(bs) THEN lastValid
  ELSE LET c == braceCount + bs[i]
       IN  ScanBraces(bs, i + 1, c, IF bs[i] = -1 /\ c = 0 THEN i ELSE lastValid)

RECURSIVE LastValidPos(_, _, _, _)
\* the same loop over the characters themselves: lastValidPos
LastValidPos(s, i, braceCount, lastValid) ==
  IF i > Len(s) THEN lastValid
  ELSE IF s[i] = "{" THEN LastValidPos(s, i + 1, braceCount + 1, lastValid)
  ELSE IF s[i] = "}"
  THEN LastValidPos(s, i + 1, braceCount - 1,
                    IF braceCount - 1 = 0 THEN i ELSE lastValid)
  ELSE LastValidPos(s, i + 1, braceCount, lastValid)

\* The start markers
StartMarkers == {<<"{", Quote>>, <<"{", "\n", Quote>>, <<"{", " ", Quote>>}

\* jsonStart, 1-based: 0 for -1
JsonStart(p) ==
  LET opts == ({IndexOf(p, mk) : mk \in StartMarkers}
               \cup {LastIndexOf(p, <<"{", Quote>>)}) \ {0}
  IN  IF opts = {} THEN 0 ELSE CHOOSE i \in opts : \A j \in opts : i <= j

\* processedContent after the start and the end were fixed
BoundaryRecover(cs) ==
  LET p  == Trim(cs)
      js == JsonStart(p)
      q  == IF js > 1 THEN SubSeq(p, js, Len(p)) ELSE p
      lv == LastValidPos(q, 1, 0, 0)
  IN  IF lv > 0 /\ lv < Len(q) THEN SubSeq(q, 1, lv) ELSE q

RECURSIVE StripCommas(_, _, _)
\* replace(/,\s*X/g, 'X') from i on
StripCommas(s, i, x) ==
  IF i > Len(s) THEN <<>>
  ELSE LET j == SkipWs(s, i + 1)
       IN  IF s[i] = "," /\ j <= Len(s) /\ s[j] = x
           THEN <<x>> \o StripCommas(s, j + 1, x)
           ELSE <<s[i]>> \o StripCommas(s, i + 1, x)

\* fixedJson
Repair(s) == StripCommas(StripCommas(s, 1, "}"), 1, "]")

\* where the value alternative of keyValueRegex ends when it starts at v0,
\* 0 when none matches
ValueEnd(s, v0) ==
  IF v0 > Len(s) THEN 0
  ELSE IF s[v0] = Quote THEN IndexFrom(s, <<Quote>>, v0 + 1)
  ELSE IF s[v0] \in Digits THEN v0 + DigitRun(s, v0) - 1
  ELSE IF Sub(s, v0, v0 + 3) = <<"t", "r", "u", "e">> THEN v0 + 3
  ELSE IF Sub(s, v0, v0 + 4) = <<"f", "a", "l", "s", "e">> THEN v0 + 4
  ELSE IF Sub(s, v0, v0 + 3) = <<"n", "u", "l", "l">> THEN v0 + 3
  ELSE IF s[v0] = "{" THEN IndexFrom(s, <<"}">>, v0 + 1)
  ELSE IF s[v0] = "[" THEN IndexFrom(s, <<"]">>, v0 + 1)
  ELSE 0

\* keyValueRegex matched at i: [ok, key, v0, end]
MatchAt(s, i) ==
  LET q  == IF s[i] = Quote THEN IndexFrom(s, <<Quote>>, i + 1) ELSE 0
      c  == SkipWs(s, q + 1)
      v0 == SkipWs(s, c + 1)
      e  == ValueEnd(s, v0)
  IN  IF q > i + 1 /\ c <= Len(s) /\ s[c] = ":" /\ e # 0
      THEN [ok |-> TRUE, key |-> SubSeq(s, i + 1, q - 1), v0 |-> v0, end |-> e]
      ELSE [ok |-> FALSE, key |-> <<>>, v0 |-> 0, end |-> 0]

RECURSIVE Extract(_, _, _)
\* the exec loop from i on: extractedData
Extract(s, i, acc) ==
  IF i > Len(s) THEN acc
  ELSE With(MatchAt(s, i), LAMBDA m :
         IF ~m.ok THEN Extract(s, i + 1, acc)
         ELSE With(ParseChars(SubSeq(s, m.v0, m.end)), LAMBDA r :
                Extract(s, m.end + 1,
                        IF r.ok THEN PutField(acc, m.key, r.v) ELSE acc)))

\* The parse step on characters: strict, repaired, extracted
ParseTiers(s) ==
  With(ParseChars(s), LAMBDA strict :
    IF strict.ok THEN [ok |-> TRUE, v |-> strict.v, tier |-> "strict"]
    ELSE With(ParseChars(Repair(s)), LAMBDA fixed :
      IF fixed.ok THEN [ok |-> TRUE, v |-> fixed.v, tier |-> "repair"]
      ELSE With(Extract(s, 1, <<>>), LAMBDA ex :
        IF Len(ex) > 0
        THEN [ok |-> TRUE, v |-> [k |-> "obj", fields |-> ex],
              tier |-> "extract"]
        ELSE [ok |-> FALSE, v |-> NullValue, tier |-> "none"])))

\* The text of a value that is not plain starts {" and is cut where its
\* braces say.  Cut, it is a proper prefix of an object's text: neither the
\* strict nor the repaired parse takes it, and keyValueRegex recovers the
\* pairs of scalars at its head -- the pair after them starts an object and is
\* consumed up to the first closing brace.  Pairs deeper in the text are not
\* followed.
HeadScalars(fields) ==
  LET n == FindIndex(fields, LAMBDA f : f[2].k \notin {"str", "num", "bool", "null"})
  IN  IF n = 0 THEN fields ELSE SubSeq(fields, 1, n - 1)

ParseJsonText(v) ==
  LET bs  == Braces(v)
      lv  == ScanBraces(bs, 1, 0, 0)
      cut == lv > 0 /\ lv < Len(bs)
      ex  == IF v.k = "obj" THEN HeadScalars(v.fields) ELSE <<>>
  IN  IF ~cut THEN [ok |-> TRUE, v |-> v, tier |-> "strict"]
      ELSE IF Len(ex) > 0
      THEN [ok |-> TRUE, v |-> [k |-> "obj", fields |-> ex], tier |-> "extract"]
      ELSE [ok |-> FALSE, v |-> NullValue, tier |-> "none"]

K_data == <<"d", "a", "t", "a">>
K_gsm_devices == <<"g", "s", "m", "_", "d", "e", "v", "i", "c", "e", "s">>
K_app_data == STORE_KEY
K_app_logs == <<"a", "p", "p", "_", "l", "o", "g", "s">>
K_logs == <<"l", "o", "g", "s">>

\* Shape normalization that takes a value of any type as the device list
NormalizeWrapsAll(p) ==
  IF p.k = "obj" /\ HasField(p.fields, K_data)
     /\ Truthy(GetField(p.fields, K_data))
     /\ IsObject(GetField(p.fields, K_data))
  THEN [ok |-> TRUE, data |-> GetField(p.fields, K_data)]
  ELSE IF IsObject(p) /\ p.k # "arr" THEN [ok |-> TRUE, data |-> p]
  ELSE [ok |-> TRUE,
        data |-> [k |-> "obj", fields |-> <<<<K_gsm_devices, p>>>>]]

\* Shape normalization: dataToStore, or the throw of 'Unsupported backup
\* format'
Normalize(p) ==
  IF p.k = "obj" /\ HasField(p.fields, K_data)
     /\ Truthy(GetField(p.fields, K_data))
     /\ IsObject(GetField(p.fields, K_data))
  THEN [ok |-> TRUE, data |-> GetField(p.fields, K_data)]
  ELSE IF IsObject(p) /\ p.k # "arr" THEN [ok |-> TRUE, data |-> p]
  ELSE IF p.k = "arr"
  THEN [ok |-> TRUE,
        data |-> [k |-> "obj", fields |-> <<<<K_gsm_devices, p>>>>]]
  ELSE [ok |-> FALSE, data |-> NullValue]

\* The parse stage with the failure of the three tiers swallowed: the
\* restore goes on with the empty dataToStore it declared
ParseStageGoesOn(text) ==
  IF text.t = "chars" /\ text.cs = <<>> THEN [ok |-> FALSE, data |-> NullValue]
  ELSE With(IF text.t = "chars" THEN ParseTiers(BoundaryRecover(text.cs))
            ELSE ParseJsonText(text.v),
            LAMBDA p : IF ~p.ok
                       THEN [ok |-> TRUE, data |-> [k |-> "obj", fields |-> <<>>]]
                       ELSE Normalize(p.v))

\* Everything restoreFromBackup does before its first await: the input
\* check, boundary recovery, the parse tiers and shape normalization.
\* ok is FALSE where it throws.
ParseStage(text) ==
  IF text.t = "chars" /\ text.cs = <<>> THEN [ok |-> FALSE, data |-> NullValue]
  ELSE With(IF text.t = "chars" THEN ParseTiers(BoundaryRecover(text.cs))
            ELSE ParseJsonText(text.v),
            LAMBDA p : IF ~p.ok THEN [ok |-> FALSE, data |-> NullValue]
                       ELSE Normalize(p.v))

-----------------------------------------------------------------------------
(* initialize *)

RECURSIVE FreeAddrs(_, _, _)
\* the first n addresses from a on that are not in used
FreeAddrs(used, n, a) ==
  IF n = 0 THEN <<>>
  ELSE IF a \in used THEN FreeAddrs(used, n, a + 1)
  ELSE <<a>> \o FreeAddrs(used \cup {a}, n - 1, a + 1)

\* this.store = JSON.parse(storedData): new objects throughout
Load(m, v) ==
  IF v.k = "app"
  THEN LET as == FreeAddrs(Range(m.init.devices), Len(v.devices), 1)
       IN  Gc([m EXCEPT
                 !.store = [v EXCEPT !.devices = as],
                 !.obj = "fresh",
                 !.shared = {},
                 !.heap = [a \in DOMAIN m.heap \cup Range(as) |->
                             IF a \in Range(as)
                             THEN v.devices[CHOOSE i \in DOMAIN as : as[i] = a]
                             ELSE m.heap[a]]])
  ELSE Gc([m EXCEPT !.store = IF v.k = "null" THEN NullValue
                              ELSE [k |-> "other"],
                    !.obj = "fresh", !.shared = {}])

\* this.store = { ...initialState }: a new object holding initialState's
\* containers
CopyInitial(m) ==
  Gc([m EXCEPT !.store = m.init, !.obj = "copy", !.shared = Fields])

\* AsyncStorage.getItem(key): the item, null (NoItem) when there is none
NoItem == [t |-> "none", cs |-> <<>>]
getItem(key) == IF key \in DOMAIN storage THEN storage[key] ELSE NoItem

\* safeGetItem(key): the item, or the default 'null'
NullChars == <<"n", "u", "l", "l">>
safeGetItem(key) ==
  IF key \in DOMAIN storage THEN storage[key]
  ELSE [t |-> "chars", cs |-> NullChars]

\* a string that is not empty
NonEmpty(text) == text.t = "json" \/ text.cs # <<>>

\* An initialize call, made by the app or by forceReinitialization in
\* restoreFromBackup: where it is, and the locals of migrateLegacyData
IniCall(by) ==
  [by |-> by, pc |-> "reading", unitNumber |-> NoItem, password |-> NoItem,
   adminNumber |-> NoItem, newDevice |-> 0, id |-> "none"]

\* initialize(): returns at once when initialized, else awaits the read
Initialize ==
  /\ ~isInitialized
  /\ Len(ini) < MaxInits
  /\ ini' = Append(ini, IniCall("app"))
  /\ rst' = IF rst.pc \in {"idle", "done"} THEN rst
            ELSE [rst EXCEPT !.others = TRUE]
  /\ UNCHANGED <<storeVars, saveVars, storage, callVars, histVars, bak>>

\* initialize returns from the call i, the memory being m
InitReturns(i, m) ==
  /\ SetMem(m)
  /\ isInitialized' = TRUE
  /\ ini' = [j \in 1..(Len(ini) - 1) |-> IF j < i THEN ini[j] ELSE ini[j + 1]]
  /\ rst' = IF ini[i].by = "restore"
            THEN [rst EXCEPT !.pc = "done", !.result = "true"]
            ELSE rst

\* The read of the canonical key arrives at the initialize call i; safeGetItem
\* gives null when the read failed.  An empty or null item goes on into
\* migrateLegacyData, up to its getItem('unitNumber').
InitRead(i, ok) ==
  LET storedData == IF ok THEN safeGetItem(K_app_data) ELSE NoItem
      r  == ParseText(storedData)
  IN  /\ i \in DOMAIN ini
      /\ ini[i].pc = "reading"
      /\ IF NonEmpty(storedData)
         THEN \E m1 \in {IF r.ok THEN Load(Mem, r.v) ELSE CopyInitial(Mem)} :
                InitReturns(i, m1)
         ELSE /\ ini' = [ini EXCEPT ![i].pc = "unitNumber"]
              /\ UNCHANGED <<storeVars, rst>>
      /\ UNCHANGED <<saveVars, storage, callVars, histVars, bak>>

InitReads == \E i \in DOMAIN ini : InitRead(i, TRUE)

InitReadFails == \E i \in DOMAIN ini : InitRead(i, FALSE)

-----------------------------------------------------------------------------
(* migrateLegacyData *)

K_unitNumber == <<"u", "n", "i", "t", "N", "u", "m", "b", "e", "r">>
K_password == <<"p", "a", "s", "s", "w", "o", "r", "d">>
K_adminNumber == <<"a", "d", "m", "i", "n", "N", "u", "m", "b", "e", "r">>
K_authorizedUsers ==
  <<"a", "u", "t", "h", "o", "r", "i", "z", "e", "d", "U", "s", "e", "r", "s">>
K_completedSteps ==
  <<"c", "o", "m", "p", "l", "e", "t", "e", "d", "S", "t", "e", "p", "s">>

\* The legacy keys in the order migrateLegacyData reads them; a call's pc is
\* the name of the key whose read it awaits
LegacyKey(pc) ==
  CASE pc = "unitNumber" -> K_unitNumber
    [] pc = "password" -> K_password
    [] pc = "adminNumber" -> K_adminNumber
    [] pc = "authorizedUsers" -> K_authorizedUsers
    [] pc = "app_logs" -> K_app_logs
    [] pc = "completedSteps" -> K_completedSteps

\* The text of a legacy user list and of a legacy log list.  A user record
\* has phone, serial and name, "" for a field it lacks; a log entry is named
\* by its id.
LegacyUsers(recs) == [t |-> "json", v |-> [k |-> "legacyUsers", items |-> recs]]
LegacyLogs(es) == [t |-> "json", v |-> [k |-> "legacyLogs", items |-> es]]

DefaultName == <<"M", "y", " ", "G", "S", "M", " ", "O", "p", "e", "n", "e", "r">>
DefaultPassword == <<"1", "2", "3", "4">>

\* migrateLegacyData goes on: the memory it leaves, its locals, where it
\* goes next ("return" also where the outer catch takes over) and the number
\* of ids it generated
Goes(m, c, next, used) == [m |-> m, c |-> c, next |-> next, used |-> used]

RECURSIVE PushLegacyUsers(_, _, _, _, _)
\* legacyUsers.forEach from the record i on: [m, used, ok], ok FALSE where a
\* TypeError ends it
PushLegacyUsers(m, c, recs, i, used) ==
  IF i > Len(recs) THEN [m |-> m, used |-> used, ok |-> TRUE]
  ELSE IF recs[i].phone = "" \/ recs[i].serial = ""
  THEN PushLegacyUsers(m, c, recs, i + 1, used)
  ELSE IF ~Has(m, "users") THEN [m |-> m, used |-> used + 1, ok |-> FALSE]
  ELSE LET uid == "m" \o ToString(idCtr + used + 1)
           m1  == InPlace(m, "users",
                    Append(m.store.users,
                           [id |-> uid,
                            name |-> IF recs[i].name # "" THEN recs[i].name
                                     ELSE "Unnamed User"]))
           a   == c.newDevice
           m2  == IF a \in DOMAIN m1.heap /\ m1.heap[a].id = c.id
                  THEN [m1 EXCEPT !.heap[a].authorizedUsers = Append(@, uid)]
                  ELSE m1
       IN  PushLegacyUsers(m2, c, recs, i + 1, used + 1)

\* completedSteps as the store keeps it: the strings of the parsed array
StepsOf(v) ==
  IF v.k = "arr"
  THEN [i \in DOMAIN v.items |->
          IF v.items[i].k \in {"str", "num"} THEN v.items[i].cs ELSE <<>>]
  ELSE <<>>

\* migrateLegacyData from the arrival of the item it awaited up to its next
\* await, with the memory m and the locals c
migrateStep(m, c, item) ==
  CASE c.pc = "unitNumber" ->
         Goes(m, [c EXCEPT !.unitNumber = item], "password", 0)
    [] c.pc = "password" ->
         Goes(m, [c EXCEPT !.password = item], "adminNumber", 0)
    [] c.pc = "adminNumber" ->
         LET c1 == [c EXCEPT !.adminNumber = item]
             id == "m" \o ToString(idCtr + 1)
             a  == FreshAddr(m)
             m1 == [m EXCEPT !.heap = MapPut(@, a,
                      [id |-> id, name |-> DefaultName,
                       unitNumber |-> c.unitNumber.cs,
                       password |-> IF NonEmpty(c.password) THEN c.password.cs
                                    ELSE DefaultPassword,
                       authorizedUsers |-> <<>>])]
             m2 == InPlace(m1, "devices", Append(m.store.devices, a))
         IN  IF ~NonEmpty(c.unitNumber) THEN Goes(m, c1, "return", 0)
             ELSE IF ~Has(m, "devices") THEN Goes(m, c1, "return", 1)
             ELSE IF ~Has(m2, "globalSettings") THEN Goes(m2, c1, "return", 1)
             ELSE Goes(InPlace(m2, "globalSettings",
                         Spread(m2.store.globalSettings, [activeDeviceId |-> id])),
                       [c1 EXCEPT !.newDevice = a, !.id = id],
                       "authorizedUsers", 1)
    [] c.pc = "authorizedUsers" ->
         LET r == ParseText(item)
         IN  IF ~NonEmpty(item) THEN Goes(m, c, "app_logs", 0)
             ELSE IF ~r.ok THEN Goes(m, c, "return", 0)
             ELSE IF r.v.k # "legacyUsers" THEN Goes(m, c, "app_logs", 0)
             ELSE LET p == PushLegacyUsers(m, c, r.v.items, 1, 0)
                  IN  Goes(p.m, c, IF p.ok THEN "app_logs" ELSE "return", p.used)
    [] c.pc = "app_logs" ->
         LET r  == ParseText(item)
             m1 == IF NonEmpty(item) /\ r.ok /\ r.v.k = "legacyLogs"
                      /\ Has(m, "logs")
                   THEN InPlace(m, "logs", MapPut(m.store.logs, c.id, r.v.items))
                   ELSE m
         IN  IF ~NonEmpty(c.adminNumber) THEN Goes(m1, c, "completedSteps", 0)
             ELSE IF ~Has(m1, "globalSettings") THEN Goes(m1, c, "return", 0)
             ELSE Goes(InPlace(m1, "globalSettings",
                         Spread(m1.store.globalSettings,
                                [adminNumber |-> c.adminNumber.cs])),
                       c, "completedSteps", 0)
    [] c.pc = "completedSteps" ->
         LET r == ParseText(item)
         IN  IF ~NonEmpty(item) THEN Goes(m, c, "saving", 0)
             ELSE IF ~Has(m, "globalSettings") THEN Goes(m, c, "return", 0)
             ELSE Goes(InPlace(m, "globalSettings",
                         Spread(m.store.globalSettings,
                                [completedSteps |->
                                   IF r.ok THEN StepsOf(r.v) ELSE <<>>])),
                       c, "saving", 0)

MigratePcs ==
  {"unitNumber", "password", "adminNumber", "authorizedUsers", "app_logs",
   "completedSteps"}

\* The getItem migrateLegacyData awaits in the initialize call i settles.  A
\* read that fails ends the migration in its catch, and initialize returns.
MigrateRead(i, ok) ==
  /\ i \in DOMAIN ini
  /\ ini[i].pc \in MigratePcs
  /\ IF ~ok
     THEN /\ InitReturns(i, Mem)
          /\ UNCHANGED <<saveVars, awaiting, idCtr, ver, writesIssued>>
     ELSE \E g \in {migrateStep(Mem, ini[i], getItem(LegacyKey(ini[i].pc)))} :
            /\ idCtr' = idCtr + g.used
            /\ ver' = VerAfter(g.m)
            /\ IF g.next = "return"
               THEN /\ InitReturns(i, g.m)
                    /\ UNCHANGED <<saveVars, awaiting, writesIssued>>
               ELSE /\ SetMem(g.m)
                    /\ ini' = [ini EXCEPT ![i] = [g.c EXCEPT !.pc = g.next]]
                    /\ UNCHANGED <<isInitialized, rst>>
                    /\ IF g.next = "saving"
                       THEN saveStore(g.m, Call("migrateLegacyData", <<>>, 0))
                       ELSE UNCHANGED <<saveVars, awaiting, writesIssued>>
  /\ UNCHANGED <<storage, lastRet, nCalls, diskVer, writeFailed,
                 deletedUsers, bak>>

MigrateReads == \E i \in DOMAIN ini : MigrateRead(i, TRUE)

MigrateReadFails == \E i \in DOMAIN ini : MigrateRead(i, FALSE)

-----------------------------------------------------------------------------
(* createBackup *)

K_version == <<"v", "e", "r", "s", "i", "o", "n">>
K_timestamp == <<"t", "i", "m", "e", "s", "t", "a", "m", "p">>

Str(cs) == [k |-> "str", cs |-> cs]
Obj(fields) == [k |-> "obj", fields |-> fields]

\* backupData.data[key]: the decoded item, or the item itself
Decoded(text) ==
  LET r == ParseText(text)
  IN  IF r.ok THEN r.v ELSE Str(text.cs)

\* backupData for the items st
BackupData(st) ==
  LET ks  == SetToSeq({key \in DOMAIN st : NonEmpty(st[key])})
  IN  Obj(<< <<K_version, Str(<<"1", ".", "0">>)>>,
             <<K_timestamp, Str(<<"T">>)>>,
             <<K_data, Obj([i \in DOMAIN ks |-> <<ks[i], Decoded(st[ks[i]])>>])>> >>)

\* createBackup(): reads every key and returns the document's text
CreateBackup ==
  /\ ~bak.taken
  /\ rst.pc = "idle"
  /\ bak' = [taken |-> TRUE, text |-> Stringify(BackupData(storage)),
             storage0 |-> storage, doc0 |-> DocOf(Mem, store),
             removed |-> "none"]
  /\ UNCHANGED <<storeVars, saveVars, storage, callVars, histVars, rst, ini>>

\* The storage adapter's removeItem on the canonical key, from outside the
\* store
RemoveCanonical ==
  /\ bak.taken /\ bak.removed = "none"
  /\ rst.pc = "idle"
  /\ K_app_data \in DOMAIN storage
  /\ storage' = MapDel(storage, K_app_data)
  /\ bak' = [bak EXCEPT !.removed = "canonical"]
  /\ UNCHANGED <<storeVars, saveVars, callVars, histVars, rst, ini>>

\* The storage adapter's multiRemove on every key: an empty storage
ClearStorage ==
  /\ bak.taken /\ bak.removed = "none"
  /\ rst.pc = "idle"
  /\ storage' = EmptyMap
  /\ bak' = [bak EXCEPT !.removed = "all"]
  /\ UNCHANGED <<storeVars, saveVars, callVars, histVars, rst, ini>>

-----------------------------------------------------------------------------
(* restoreFromBackup after the parse: the reads, the merge, the clear, the *)
(* writes and the commit *)

RstIdle ==
  [pc |-> "idle", input |-> [t |-> "chars", cs |-> <<>>], data |-> NullValue,
   merged |-> FALSE, toRemove |-> {}, todo |-> <<>>, successCount |-> 0,
   result |-> "none",
   \* history: the storage and the in-memory document when the call was made,
   \* the keys written, whether the read of the canonical key failed, whether
   \* another call of the store was in progress during the call
   s0 |-> EmptyMap, d0 |-> NullValue, wrote |-> {}, readFailed |-> FALSE,
   others |-> FALSE]

\* Object.entries(dataToStore)
Entries(data) ==
  IF data.k = "obj" THEN data.fields
  ELSE IF data.k = "arr"
  THEN [i \in DOMAIN data.items |-> <<<<ToString(i - 1)>>, data.items[i]>>]
  ELSE <<>>

\* dataToStore[key], null for undefined
Lookup(data, key) ==
  IF data.k = "obj" /\ HasField(data.fields, key)
  THEN GetField(data.fields, key) ELSE NullValue

RECURSIVE FoldBuckets(_, _, _, _)
\* the loop over the on-device log buckets bs from i on, onto the backup's
\* log mapping acc
FoldBuckets(bs, i, exLogs, acc) ==
  IF i > Len(bs) THEN acc
  ELSE LET deviceId   == bs[i]
           logEntries == exLogs[deviceId]
           newLogs    == Filter(acc[deviceId],
                                LAMBDA e : e \notin Range(logEntries))
       IN  FoldBuckets(bs, i + 1, exLogs,
             IF deviceId \notin DOMAIN acc
             THEN MapPut(acc, deviceId, logEntries)
             ELSE MapPut(acc, deviceId, newLogs \o logEntries))

\* The merge of the backup's canonical document bk with the one on the
\* device, ex: what dataToStore['app_data'] is afterwards.  Without a logs
\* field in bk the first bucket throws, after the devices were merged.
MergeAppData(bk, ex) ==
  IF bk.k = "app" /\ ex.k = "app" /\ "devices" \in bk.has
     /\ "devices" \in ex.has
  THEN LET existingDeviceIds ==
             {ex.devices[i].id : i \in DOMAIN ex.devices}
           devs == ex.devices
                   \o Filter(bk.devices,
                             LAMBDA d : d.id \notin existingDeviceIds)
           bk1  == [bk EXCEPT !.devices = devs]
       IN  IF "logs" \notin ex.has \/ "logs" \notin bk.has THEN bk1
           ELSE [bk1 EXCEPT !.logs =
                   FoldBuckets(SetToSeq(DOMAIN ex.logs), 1, ex.logs, bk.logs)]
  ELSE bk

RECURSIVE CachedLogs(_, _, _)
\* cachedLogs, from the entries es from i on
CachedLogs(es, i, acc) ==
  IF i > Len(es) THEN acc
  ELSE LET key   == es[i][1]
           value == es[i][2]
       IN  CachedLogs(es, i + 1,
             IF Includes(key, K_logs) \/ key = K_app_data
             THEN IF key = K_app_data /\ value.k = "app" /\ "logs" \in value.has
                  THEN PutField(acc, K_app_logs,
                                [k |-> "logsmap", logs |-> value.logs])
                  ELSE IF key = K_app_data /\ value.k = "obj"
                          /\ Truthy(Lookup(value, K_logs))
                  THEN PutField(acc, K_app_logs, Lookup(value, K_logs))
                  ELSE PutField(acc, key, value)
             ELSE acc)

\* typeof value === 'string' ? value : JSON.stringify(value)
ValueToStore(value) ==
  IF value.k = "str" THEN [t |-> "chars", cs |-> value.cs]
  ELSE Stringify(value)

\* The setItem calls of the two write loops, in order: the entries that are
\* not null, then the cached logs dataToStore has no truthy value for
WriteList(data, cached) ==
  LET es   == Filter(Entries(data), LAMBDA e : e[2].k # "null")
      cs   == Filter(cached, LAMBDA e : ~Truthy(Lookup(data, e[1])))
  IN  [i \in DOMAIN es |->
         [loop |-> "main", key |-> es[i][1], text |-> ValueToStore(es[i][2])]]
      \o [i \in DOMAIN cs |->
         [loop |-> "cached", key |-> cs[i][1], text |-> ValueToStore(cs[i][2])]]

\* no commit check
CommitNeverFails(successCount) == FALSE

\* successCount === 0 throws
CommitFails(successCount) == successCount = 0

\* restoreFromBackup goes on after a write or the clear: the next setItem,
\* or the commit check and forceReinitialization
Proceed(r) ==
  IF r.todo # <<>>
  THEN /\ rst' = [r EXCEPT !.pc = "writing"]
       /\ UNCHANGED <<isInitialized, ini>>
  ELSE IF CommitFails(r.successCount)
  THEN /\ rst' = [r EXCEPT !.pc = "done", !.result = "threw"]
       /\ UNCHANGED <<isInitialized, ini>>
  ELSE /\ rst' = [r EXCEPT !.pc = "reinit"]
       /\ isInitialized' = FALSE
       /\ ini' = Append(ini, IniCall("restore"))

\* restoreFromBackup(text) up to its first await
RestoreBegin(text) ==
  LET p == ParseStage(text)
  IN  /\ rst.pc = "idle"
      /\ rst' = IF p.ok
                THEN [rst EXCEPT !.pc = "readExisting", !.input = text,
                                 !.data = p.data, !.s0 = storage,
                                 !.d0 = DocOf(Mem, store),
                                 !.others = (ini # <<>>)]
                ELSE [rst EXCEPT !.pc = "done", !.result = "threw",
                                 !.input = text, !.s0 = storage,
                                 !.d0 = DocOf(Mem, store)]
      /\ UNCHANGED <<storeVars, saveVars, storage, callVars, histVars, ini, bak>>

\* getItem('app_data') settles; then the log cache and the merge, up to
\* getAllKeys
RestoreReadExisting(ok) ==
  LET present  == ok /\ K_app_data \in DOMAIN storage
                  /\ NonEmpty(storage[K_app_data])
      r        == IF present THEN ParseText(storage[K_app_data]) ELSE Fail
      existing == r.v
      bk       == Lookup(rst.data, K_app_data)
      merged   == Truthy(bk) /\ Truthy(existing)
      data1    == IF merged
                  THEN [rst.data EXCEPT !.fields =
                          PutField(@, K_app_data, MergeAppData(bk, existing))]
                  ELSE rst.data
      cached   == CachedLogs(Entries(data1), 1, <<>>)
  IN  /\ rst.pc = "readExisting"
      /\ rst' = IF rst.data.k = "null"
                THEN [rst EXCEPT !.pc = "done", !.result = "threw",
                                 !.readFailed = ~ok]
                ELSE [rst EXCEPT !.pc = "listKeys", !.data = data1,
                                 !.merged = merged, !.readFailed = ~ok,
                                 !.todo = WriteList(data1, cached)]
      /\ UNCHANGED <<storeVars, saveVars, storage, callVars, histVars, ini, bak>>

RestoreReadsExisting == RestoreReadExisting(TRUE)

RestoreReadFails == RestoreReadExisting(FALSE)

\* getAllKeys settles: keysToRemove, or the catch around the clear
RestoreListKeys(ok) ==
  LET keysToRemove ==
        {key \in DOMAIN storage : ~(key = K_app_data /\ rst.merged)}
  IN  /\ rst.pc = "listKeys"
      /\ IF ok /\ keysToRemove # {}
         THEN /\ rst' = [rst EXCEPT !.pc = "clearing",
                                    !.toRemove = keysToRemove]
              /\ UNCHANGED <<isInitialized, ini>>
         ELSE Proceed(rst)
      /\ UNCHANGED <<store, initialState, storeObj, shared, heap, saveVars,
                     storage, callVars, histVars, bak>>

RestoreListsKeys == RestoreListKeys(TRUE)

RestoreListKeysFails == RestoreListKeys(FALSE)

\* multiRemove(keysToRemove) settles
RestoreClear(ok) ==
  /\ rst.pc = "clearing"
  /\ storage' = IF ok
                THEN [key \in DOMAIN storage \ rst.toRemove |-> storage[key]]
                ELSE storage
  /\ Proceed(rst)
  /\ UNCHANGED <<store, initialState, storeObj, shared, heap, saveVars,
                 callVars, histVars, bak>>

RestoreClears == RestoreClear(TRUE)

RestoreClearFails == RestoreClear(FALSE)

\* the setItem the write loops await settles
RestoreWrite(ok) ==
  LET item == Head(rst.todo)
  IN  /\ rst.pc = "writing"
      /\ storage' = IF ok THEN MapPut(storage, item.key, item.text)
                    ELSE storage
      /\ writeFailed' = (writeFailed \/ ~ok)
      /\ Proceed([rst EXCEPT
                    !.todo = IF ~ok /\ item.loop = "cached" THEN <<>>
                             ELSE Tail(@),
                    !.successCount = IF ok THEN @ + 1 ELSE @,
                    !.wrote = IF ok THEN @ \cup {item.key} ELSE @])
      /\ UNCHANGED <<store, initialState, storeObj, shared, heap, saveVars,
                     callVars, ver, diskVer, writesIssued, deletedUsers, bak>>

RestoreWrites == RestoreWrite(TRUE)

RestoreWriteFails == RestoreWrite(FALSE)

-----------------------------------------------------------------------------
(* The states the program starts from *)

\* new DataStore(): the store is the module's initialState object itself
Constructed ==
  [store |-> InitialStateValue, init |-> InitialStateValue, obj |-> "initial",
   shared |-> {}, heap |-> EmptyMap]

Device(id, name, au) ==
  [id |-> id, name |-> name, unitNumber |-> <<"0", "4">>,
   password |-> <<"1", "2", "3", "4">>, authorizedUsers |-> au]

User(id, name) == [id |-> id, name |-> name]

Settings(active) ==
  [adminNumber |-> <<>>, activeDeviceId |-> active, completedSteps |-> <<>>]

\* Documents a device holds under the canonical key
DocA ==
  [k |-> "app", has |-> Fields,
   devices |-> <<Device("d1", <<"G">>, <<"u1">>)>>,
   users |-> <<User("u1", "Ann")>>,
   logs |-> MapPut(EmptyMap, "d1", <<"l1", "l2">>),
   globalSettings |-> Settings("d1")]

\* the same with a second user, authorized for no device
DocTwoUsers ==
  [DocA EXCEPT !.users = <<User("u1", "Ann"), User("u2", "Bob")>>]

DocBrace ==
  [DocA EXCEPT !.devices = <<Device("d1", <<"G", "}">>, <<"u1">>)>>]

\* Canonical documents of backup files
BkB ==
  [k |-> "app", has |-> Fields,
   devices |-> <<Device("d2", <<"H">>, <<"u2">>),
                 Device("d1", <<"G">>, <<"u2">>)>>,
   users |-> <<User("u2", "Bob")>>,
   logs |-> MapPut(MapPut(EmptyMap, "d1", <<"l2", "l3">>), "d2", <<"l4">>),
   globalSettings |-> Settings("d2")]

BkNoDevices ==
  [k |-> "app", has |-> Fields \ {"devices"}, devices |-> <<>>,
   users |-> <<User("u2", "Bob")>>,
   logs |-> MapPut(EmptyMap, "d2", <<"l4">>),
   globalSettings |-> Settings("d2")]

BkNoLogs ==
  [k |-> "app", has |-> Fields \ {"logs"},
   devices |-> <<Device("d2", <<"H">>, <<"u2">>)>>,
   users |-> <<User("u2", "Bob")>>,
   logs |-> EmptyMap,
   globalSettings |-> Settings("d2")]

JsonText(v) == [t |-> "json", v |-> v]
CharText(cs) == [t |-> "chars", cs |-> cs]

K_k == <<"k">>
K_e == <<"e">>
K_app_logs_d1 == K_app_logs \o <<"_", "d", "1">>

\* What a device's storage holds
DeviceStorages ==
  { MapPut(EmptyMap, K_app_data, JsonText(DocA)),
    MapPut(EmptyMap, K_app_data, JsonText(DocBrace)),
    MapPut(MapPut(MapPut(EmptyMap, K_app_data, JsonText(DocA)),
                  K_e, CharText(<<>>)),
           K_app_logs_d1, CharText(<<"[", "]">>)),
    MapPut(EmptyMap, K_k, CharText(<<Quote, "x", Quote>>)) }

\* a backup file holding the items st
BackupFile(st) == Stringify(BackupData(st))

CraftedBackups ==
  { BackupFile(MapPut(EmptyMap, K_app_data, JsonText(BkB))),
    BackupFile(MapPut(EmptyMap, K_app_data, JsonText(BkNoDevices))),
    BackupFile(MapPut(EmptyMap, K_app_data, JsonText(BkNoLogs))),
    BackupFile(MapPut(EmptyMap, K_k, CharText(<<"1">>))) }

\* no call made yet
NoCalls ==
  /\ savePromise = 0
  /\ pendingWrites = {}
  /\ awaiting = <<>>
  /\ lastRet = NoReturn
  /\ nCalls = 0
  /\ idCtr = 0
  /\ ver = 0
  /\ diskVer = 0
  /\ writesIssued = 0
  /\ writeFailed = FALSE
  /\ deletedUsers = {}
  /\ rst = RstIdle
  /\ ini = <<>>
  /\ bak = [taken |-> FALSE, text |-> CharText(<<>>), storage0 |-> EmptyMap,
            doc0 |-> NullValue, removed |-> "none"]

MemIs(m) ==
  /\ store = m.store
  /\ initialState = m.init
  /\ storeObj = m.obj
  /\ shared = m.shared
  /\ heap = m.heap

\* The store as constructed over an empty storage, or as initialize() left
\* it over an empty storage or over one holding a canonical document
Init ==
  /\ NoCalls
  /\ \/ /\ MemIs(Constructed)
        /\ isInitialized = FALSE
        /\ storage = EmptyMap
     \/ /\ MemIs(Load(Constructed, NullValue))
        /\ isInitialized = TRUE
        /\ storage = EmptyMap
     \/ /\ MemIs(Load(Constructed, DocA))
        /\ isInitialized = TRUE
        /\ storage = MapPut(EmptyMap, K_app_data, JsonText(DocA))

Next ==
  \/ AddDevice
  \/ UpdateDevice
  \/ DeleteDevice
  \/ SetActiveDevice
  \/ AddUser
  \/ UpdateUser
  \/ DeleteUser
  \/ AuthorizeUserForDevice
  \/ DeauthorizeUserForDevice
  \/ AddDeviceLog
  \/ ClearDeviceLogs
  \/ UpdateGlobalSettings
  \/ WriteSucceeds
  \/ WriteFails

Spec == Init /\ [][Next]_vars

-----------------------------------------------------------------------------
(* Users and authorizations: the mutators of devices' authorizedUsers and  *)
(* of the user collection, on a store constructed empty or loaded with two *)
(* users                                                                   *)

InitAuth ==
  /\ NoCalls
  /\ \/ /\ MemIs(Constructed)
        /\ isInitialized = FALSE
        /\ storage = EmptyMap
     \/ /\ MemIs(Load(Constructed, DocTwoUsers))
        /\ isInitialized = TRUE
        /\ storage = MapPut(EmptyMap, K_app_data, JsonText(DocTwoUsers))

NextAuth ==
  \/ AddDevice
  \/ UpdateDevice
  \/ AddUser
  \/ UpdateUser
  \/ DeleteUser
  \/ AuthorizeUserForDevice
  \/ DeauthorizeUserForDevice
  \/ WriteSucceeds
  \/ WriteFails

SpecAuth == InitAuth /\ [][NextAuth]_vars

-----------------------------------------------------------------------------
(* The store's persistence *)

\* every mutator called has returned and no write of the document is in flight
Quiescent == awaiting = <<>> /\ pendingWrites = {}

SaveWrites == {w \in pendingWrites : w.by = "saveStore"}

\* C1: whenever every mutator called has returned and no write of the
\* canonical document is in flight, no write having failed and the document
\* having been changed, the item under 'app_data' is the serialized in-memory
\* AppData.
C1_QuiescentConsistency ==
  (Quiescent /\ ~writeFailed /\ ver > 0)
    => /\ K_app_data \in DOMAIN storage
       /\ storage[K_app_data] = Serialize(Mem)

\* C2: when the calls awaiting a save return, no write having failed, the
\* canonical document in storage holds the change of each of them.
C2_PersistsBeforeReturning ==
  ~writeFailed => \A v \in lastRet.vers : v <= lastRet.disk

\* C3: at most one write issued by saveStore is in flight; a save request
\* arriving while one is in flight issues no write and completes only when
\* that write settles; when the write settles, with success or failure, the
\* slot is empty and the next save request starts a new write.
C3_WriteCoalescing ==
  /\ [](/\ Cardinality(SaveWrites) <= 1
        /\ (savePromise # 0) <=> (SaveWrites # {})
        /\ (awaiting # <<>>) => (savePromise # 0))
  /\ [][/\ (savePromise # 0 /\ Len(awaiting') > Len(awaiting))
             => (pendingWrites' = pendingWrites
                 /\ writesIssued' = writesIssued)
        /\ (Len(awaiting') < Len(awaiting))
             => (SaveWrites # {} /\ SaveWrites' = {} /\ awaiting' = <<>>)
        /\ (SaveWrites' # SaveWrites /\ SaveWrites # {})
             => savePromise' = 0
        /\ (savePromise = 0 /\ Len(awaiting') > Len(awaiting))
             => (writesIssued' = writesIssued + 1
                 /\ Cardinality(SaveWrites') = 1)]_vars

\* a second write is in flight with two requests waiting for it
C3_Witness ==
  /\ writesIssued = 2
  /\ Cardinality(SaveWrites) = 1
  /\ Len(awaiting) = 2

-----------------------------------------------------------------------------
(* Backup and restore on a device *)

\* restoreFromBackup on a backup file: one made elsewhere, or the text
\* createBackup returned
RestoreBackupFile ==
  \E text \in CraftedBackups \cup (IF bak.taken THEN {bak.text} ELSE {}) :
    RestoreBegin(text)

InitRestore ==
  /\ NoCalls
  /\ MemIs(Constructed)
  /\ isInitialized = FALSE
  /\ storage \in DeviceStorages

NextRestore ==
  \/ Initialize
  \/ InitReads
  \/ CreateBackup
  \/ RemoveCanonical
  \/ ClearStorage
  \/ RestoreBackupFile
  \/ RestoreReadsExisting
  \/ RestoreReadFails
  \/ RestoreListsKeys
  \/ RestoreListKeysFails
  \/ RestoreClears
  \/ RestoreClearFails
  \/ RestoreWrites
  \/ RestoreWriteFails

SpecRestore == InitRestore /\ [][NextRestore]_vars

-----------------------------------------------------------------------------
(* restoreFromBackup on arbitrary text *)

Alphabet == {"{", "}", "[", "]", Quote, ",", "1", " "}

SampleInputs ==
  { <<"n", "u", "l", "l">>,
    <<"t", "r", "u", "e">>,
    <<Quote, "a", Quote, ":", "1">>,
    <<"{", Quote, "a", Quote, ":", "1", "}">>,
    <<"{", " ", Quote, "a", Quote, ":", "1", "}">>,
    <<"{", Quote, "a", Quote, ":", "1", ",", "}">>,
    <<"x", "{", Quote, "a", Quote, ":", "1", "}", "y", "}">>,
    <<"x", "{", Quote, "a", Quote, ":", "1", "}", "y", "{", "}">>,
    <<"{", Quote, "a", Quote, ":", "{", Quote, "b", Quote, ":", "{", "}",
      "}", "}", "{", "}">> }

CharInputs ==
  UNION {[1..n -> Alphabet] : n \in 0..MaxLen} \cup SampleInputs

RestoreChars == \E cs \in CharInputs : RestoreBegin(CharText(cs))

InitParse ==
  /\ NoCalls
  /\ MemIs(Constructed)
  /\ isInitialized = FALSE
  /\ storage \in { MapPut(EmptyMap, K_app_data, JsonText(DocA)),
                   MapPut(EmptyMap, K_k, CharText(<<Quote, "x", Quote>>)) }

NextParse ==
  \/ Initialize
  \/ InitReads
  \/ RestoreChars
  \/ RestoreReadsExisting
  \/ RestoreReadFails
  \/ RestoreListsKeys
  \/ RestoreListKeysFails
  \/ RestoreClears
  \/ RestoreClearFails
  \/ RestoreWrites
  \/ RestoreWriteFails

SpecParse == InitParse /\ [][NextParse]_vars

-----------------------------------------------------------------------------
(* initialize and legacy migration when the app starts *)

LegacyUser(phone, serial, name) ==
  [phone |-> phone, serial |-> serial, name |-> name]

\* a legacy log list one entry longer than a log bucket may be
LongLogs == [i \in 1..(LogCap + 1) |-> "e" \o ToString(i)]

UnitOnly == MapPut(EmptyMap, K_unitNumber, CharText(<<"0", "4">>))

\* What the storage of a device holds when the app starts: nothing; the
\* legacy keys of an older version, with log lists of several kinds; a
\* canonical document that is cut short
InitStorages ==
  { EmptyMap,
    MapPut(UnitOnly, K_password, CharText(<<"9", "9", "9", "9">>)),
    MapPut(MapPut(MapPut(MapPut(MapPut(EmptyMap,
      K_unitNumber, CharText(<<"0", "5">>)),
      K_adminNumber, CharText(<<"6">>)),
      K_authorizedUsers,
        LegacyUsers(<<LegacyUser("p1", "001", "Bob"),
                      LegacyUser("p2", "", "")>>)),
      K_app_logs, LegacyLogs(<<"e1", "e2">>)),
      K_completedSteps, CharText(<<"[", Quote, "s", Quote, "]">>)),
    MapPut(UnitOnly, K_app_logs, LegacyLogs(LongLogs)),
    MapPut(UnitOnly, K_app_logs, CharText(<<"1">>)),
    MapPut(MapPut(UnitOnly, K_authorizedUsers, CharText(<<"[">>)),
           K_app_logs, LegacyLogs(<<"e1">>)),
    MapPut(UnitOnly, K_completedSteps, CharText(<<"{">>)),
    MapPut(UnitOnly, K_app_data, CharText(<<>>)),
    MapPut(UnitOnly, K_app_data, JsonText(DocA)),
    MapPut(EmptyMap, K_adminNumber, CharText(<<"6">>)),
    MapPut(EmptyMap, K_app_data, CharText(<<"{">>)) }

InitInit ==
  /\ NoCalls
  /\ MemIs(Constructed)
  /\ isInitialized = FALSE
  /\ storage \in InitStorages

NextInit ==
  \/ Initialize
  \/ InitReads
  \/ InitReadFails
  \/ MigrateReads
  \/ MigrateReadFails
  \/ WriteSucceeds
  \/ WriteFails

SpecInit == InitInit /\ [][NextInit]_vars

-----------------------------------------------------------------------------
(* initialize on a store whose methods the app has called already *)

StartStorages ==
  { MapPut(EmptyMap, K_app_data, CharText(<<"{">>)),
    MapPut(EmptyMap, K_app_data, JsonText(DocA)) }

InitStart ==
  /\ NoCalls
  /\ MemIs(Constructed)
  /\ isInitialized = FALSE
  /\ storage \in StartStorages

NextStart ==
  \/ Initialize
  \/ InitReads
  \/ AddDevice
  \/ AddDeviceLog
  \/ UpdateGlobalSettings
  \/ WriteSucceeds
  \/ WriteFails

SpecStart == InitStart /\ [][NextStart]_vars

-----------------------------------------------------------------------------
(* The merge of a restore *)

\* the canonical document of the items st, null when there is none
CanonicalOf(st) ==
  IF K_app_data \in DOMAIN st /\ NonEmpty(st[K_app_data])
  THEN ParseText(st[K_app_data]).v ELSE NullValue

\* the canonical document of the backup restoreFromBackup was given
BackupDoc ==
  LET p == ParseStage(rst.input)
  IN  IF p.ok THEN Lookup(p.data, K_app_data) ELSE NullValue

DeviceIds(d) ==
  IF d.k = "app" /\ "devices" \in d.has
  THEN {d.devices[i].id : i \in DOMAIN d.devices} ELSE {}

UserIds(d) ==
  IF d.k = "app" /\ "users" \in d.has
  THEN {d.users[i].id : i \in DOMAIN d.users} ELSE {}

LogsOf(d) == IF d.k = "app" /\ "logs" \in d.has THEN d.logs ELSE EmptyMap

\* every id in a device's authorizedUsers is the id of a user of d
Consistent(d) ==
  d.k = "app" /\ "devices" \in d.has
    => \A i \in DOMAIN d.devices :
         Range(d.devices[i].authorizedUsers) \subseteq UserIds(d)

\* restoreFromBackup returned true on a backup holding a canonical document,
\* with a canonical document on the device, every storage call succeeding
MergingRestoreDone ==
  /\ rst.pc = "done" /\ rst.result = "true"
  /\ ~writeFailed /\ ~rst.readFailed
  /\ CanonicalOf(rst.s0).k = "app"
  /\ BackupDoc.k = "app"

\* C4: after a successful restore of a backup holding a canonical document
\* onto a device holding one, every device of either document is in the
\* resulting canonical document and every log entry of every on-device
\* bucket is still in the bucket of its device id, whichever of the fields
\* devices and logs the backup's document has.
C4_MergeNonDestructive ==
  MergingRestoreDone =>
    LET on  == CanonicalOf(rst.s0)
        res == CanonicalOf(storage)
    IN  /\ DeviceIds(on) \cup DeviceIds(BackupDoc) \subseteq DeviceIds(res)
        /\ \A b \in DOMAIN LogsOf(on) :
             /\ b \in DOMAIN LogsOf(res)
             /\ Range(LogsOf(on)[b]) \subseteq Range(LogsOf(res)[b])

\* C5: when the on-device document and the backup's document are each
\* referentially consistent, after a successful merging restore every id in
\* a device's authorizedUsers in the resulting document is the id of one of
\* its users.
C5_ReferentialIntegrity ==
  (MergingRestoreDone /\ Consistent(CanonicalOf(rst.s0)) /\ Consistent(BackupDoc))
    => Consistent(CanonicalOf(storage))

-----------------------------------------------------------------------------
(* Round trips *)

\* restoreFromBackup returned true on the text createBackup returned, every
\* storage write succeeding
RoundTripDone(removed) ==
  /\ bak.taken /\ bak.removed = removed
  /\ rst.pc = "done" /\ rst.result = "true"
  /\ rst.input = bak.text
  /\ ~writeFailed

\* C6: on a storage holding a canonical document, which the store has
\* loaded, createBackup, the removal of the canonical document and
\* restoreFromBackup of the backup leave the store's AppData with the
\* devices, users, logs and settings it had when the backup was taken.
C6_AppDataRoundTrip ==
  (/\ RoundTripDone("canonical")
   /\ bak.doc0.k = "app"
   /\ bak.doc0 = CanonicalOf(bak.storage0))
    => DocOf(Mem, store) = bak.doc0

\* the keys a backup file has entries for
BackupKeys(text) ==
  LET d == Lookup(ParseText(text).v, K_data)
  IN  {Entries(d)[i][1] : i \in DOMAIN Entries(d)}

\* C7: createBackup records an entry for every key in storage, and the
\* restore of that backup onto an empty storage gives a storage with the
\* same keys, each holding the same value.
C7_StorageRoundTrip ==
  /\ bak.taken => BackupKeys(bak.text) = DOMAIN bak.storage0
  /\ RoundTripDone("all") => storage = bak.storage0

-----------------------------------------------------------------------------
(* Failing restores *)

\* the input is empty, or strict parse, repair and key extraction all fail
ParseFails(text) ==
  text.t = "chars"
    /\ (text.cs = <<>> \/ ~ParseTiers(BoundaryRecover(text.cs)).ok)

RestoreCalled == rst.pc # "idle"

\* C8: on an input that is empty or on which strict parse, repair and key
\* extraction all fail, restoreFromBackup throws, no storage key is written
\* or removed and the store's memory is what it was.
C8_ParseFailureWritesNothing ==
  /\ []((RestoreCalled /\ ParseFails(rst.input))
         => (rst.pc = "done" /\ rst.result = "threw" /\ rst.wrote = {}))
  /\ [][(~RestoreCalled /\ RestoreCalled' /\ ParseFails(rst'.input))
         => (storage' = storage /\ UNCHANGED storeVars
             /\ ini' = ini /\ rst'.pc = "done")]_vars

\* a restore of text that cannot be parsed has thrown, on a device whose
\* storage holds a key
C8_Witness ==
  /\ RestoreCalled /\ ParseFails(rst.input) /\ rst.input.cs # <<>>
  /\ rst.result = "threw"
  /\ storage # EmptyMap

\* the input holds none of the start markers
NoMarker(text) ==
  text.t = "chars" /\ \A mk \in StartMarkers : ~Includes(text.cs, mk)

\* the input holds no double quote and no opening bracket
NoQuoteNoBracket(text) ==
  text.t = "chars" /\ \A i \in DOMAIN text.cs : text.cs[i] \notin {Quote, "["}

\* restoreFromBackup fails and writes no key
FailsWritingNothing ==
  /\ rst.wrote = {}
  /\ rst.pc # "reinit"
  /\ rst.pc = "done" => rst.result = "threw"

\* C9, as stated: on every input that holds none of the start markers,
\* restoreFromBackup fails with an error and writes no storage key.
C9_NoMarkerFails ==
  (RestoreCalled /\ NoMarker(rst.input)) => FailsWritingNothing

\* C9, amended: on every input that holds no double quote and no opening
\* bracket, restoreFromBackup fails with an error and writes no storage key.
C9_NoQuoteNoBracketFails ==
  (RestoreCalled /\ NoQuoteNoBracket(rst.input)) => FailsWritingNothing

\* the restore of {} has thrown, after the clear
C9_Witness ==
  /\ rst.pc = "done" /\ rst.result = "threw"
  /\ NoQuoteNoBracket(rst.input)
  /\ rst.input.cs = <<"{", "}">>
  /\ storage = EmptyMap

\* C10: restoreFromBackup returns true exactly when a storage key was
\* written in the write stage; when every write fails or there is nothing to
\* write it throws.
C10_CommitRule ==
  /\ rst.pc = "done" => (rst.result = "true" <=> rst.wrote # {})
  /\ rst.pc = "reinit" => rst.wrote # {}
  /\ rst.pc # "done" => rst.result = "none"

\* every write of a restore has failed and it has thrown
C10_Witness ==
  /\ rst.pc = "done" /\ rst.result = "threw"
  /\ writeFailed
  /\ rst.todo = <<>> /\ rst.wrote = {}

-----------------------------------------------------------------------------
(* The in-memory view after a restore and after an initialization *)

\* an AppData with its four fields
WellFormed(d) == d.k = "app" /\ Fields \subseteq d.has

\* a well-formed AppData with no devices, no users and no logs
EmptyAppData(d) ==
  /\ WellFormed(d)
  /\ d.devices = <<>>
  /\ d.users = <<>>
  /\ DOMAIN d.logs = {}

\* this step is the return of restoreFromBackup with true, no other call of
\* the store having been in progress during it and no storage call having
\* failed
RestoreReturnsTrue ==
  /\ rst.pc # "done"
  /\ rst'.pc = "done" /\ rst'.result = "true"
  /\ ~rst'.others /\ ~rst'.readFailed /\ ~writeFailed'

\* C11: when restoreFromBackup returns true and no other store operation ran
\* during it, the in-memory AppData equals the canonical document then in
\* storage; when the storage then holds no canonical document, the in-memory
\* AppData is a well-formed AppData with no devices, users or logs.
C11_ViewAfterRestore ==
  [][RestoreReturnsTrue =>
       IF CanonicalOf(storage').k = "app"
       THEN DocOf(Mem, store)' = CanonicalOf(storage')
       ELSE EmptyAppData(DocOf(Mem, store)')]_vars

\* the same, for the restores that leave a canonical document in storage
C11_WithCanonicalDocument ==
  [][(RestoreReturnsTrue /\ CanonicalOf(storage').k = "app")
       => DocOf(Mem, store)' = CanonicalOf(storage')]_vars

\* this step is the return of an initialize call
InitializeReturns == Len(ini') < Len(ini)

\* the legacy item under key, when the storage holds one that is not empty
HasLegacy(key) == key \in DOMAIN storage /\ NonEmpty(storage[key])

\* C12: when initialize runs over a storage with no value under the canonical
\* key and a legacy unit number, the store afterwards is a well-formed
\* AppData with exactly one device, of that unit number and of the legacy
\* password ("1234" if there is none), which is the active device; with no
\* legacy unit number either, the store is an empty well-formed AppData.
C12_MigratesWithoutCanonical ==
  [][(InitializeReturns /\ K_app_data \notin DOMAIN storage)
       => LET d == DocOf(Mem, store)'
          IN  IF HasLegacy(K_unitNumber)
              THEN /\ WellFormed(d)
                   /\ Len(d.devices) = 1
                   /\ d.devices[1].unitNumber = storage[K_unitNumber].cs
                   /\ d.devices[1].password =
                        IF HasLegacy(K_password) THEN storage[K_password].cs
                        ELSE DefaultPassword
                   /\ ActiveOf(d.globalSettings) = d.devices[1].id
              ELSE EmptyAppData(d)]_vars

\* the device is as stated whenever the migration ran and made one (the read
\* of the canonical key having failed)
C12_MigratesAfterFailedRead ==
  [][(InitializeReturns /\ K_app_data \notin DOMAIN storage
        /\ store.k = "app" /\ store'.k = "app" /\ HasLegacy(K_unitNumber)
        /\ Len(DocOf(Mem, store)'.devices) > 0)
       => LET d == DocOf(Mem, store)'
          IN  /\ WellFormed(d)
              /\ Len(d.devices) = 1
              /\ d.devices[1].unitNumber = storage[K_unitNumber].cs
              /\ d.devices[1].password =
                   IF HasLegacy(K_password) THEN storage[K_password].cs
                   ELSE DefaultPassword
              /\ ActiveOf(d.globalSettings) = d.devices[1].id]_vars

\* the item under the canonical key is a text JSON.parse rejects
CorruptCanonical ==
  /\ K_app_data \in DOMAIN storage
  /\ NonEmpty(storage[K_app_data])
  /\ ~ParseText(storage[K_app_data]).ok

\* C13: when the value under the canonical key cannot be deserialized,
\* initialize returns with the store marked initialized and the in-memory
\* AppData empty -- no devices, no users, no logs, default global settings --
\* whatever was called on the store before.
C13_CorruptCanonicalGivesEmpty ==
  [][(InitializeReturns /\ CorruptCanonical)
       => /\ isInitialized'
          /\ EmptyAppData(DocOf(Mem, store)')
          /\ store'.globalSettings = InitialStateValue.globalSettings]_vars

\* the same, for a store on which no mutator was called before
C13_EmptyWhenNothingCalledBefore ==
  [][(InitializeReturns /\ CorruptCanonical /\ nCalls = 0)
       => /\ isInitialized'
          /\ EmptyAppData(DocOf(Mem, store)')
          /\ store'.globalSettings = InitialStateValue.globalSettings]_vars

-----------------------------------------------------------------------------
(* Devices, users and authorizations *)

\* the ids of the store's devices, in the order of the collection
StoreDeviceIds ==
  IF Has(Mem, "devices")
  THEN [i \in DOMAIN store.devices |-> heap[store.devices[i]].id]
  ELSE <<>>

NoDuplicates(s) == \A i, j \in DOMAIN s : s[i] = s[j] => i = j

\* getDeviceById(id) finds a device
Resolves(id) == \E i \in DOMAIN StoreDeviceIds : StoreDeviceIds[i] = id

\* the one call that returned at the latest step, if it was the only one
OnlyReturn(op) ==
  {r \in lastRet.rets : r.op = op /\ Cardinality(lastRet.rets) = 1}

\* C14: no two devices of the device collection have the same id, after any
\* sequence of addDevice, updateDevice with any partial and deleteDevice; and
\* when addDevice returns a device, getDeviceById resolves its id.
C14_DeviceIdsUnique ==
  /\ NoDuplicates(StoreDeviceIds)
  /\ \A r \in OnlyReturn("addDevice") :
       r.val = "value" => Resolves(r.args[1])

\* the device addDevice returns is resolved
C14_AddDeviceResolves ==
  \A r \in OnlyReturn("addDevice") : r.val = "value" => Resolves(r.args[1])

\* the store was constructed over an empty storage and never loaded a
\* document: it started empty
StartedEmpty == ~isInitialized

\* C15: in every state reached from an empty store through addDevice,
\* updateDevice, addUser, updateUser, deleteUser, authorizeUserForDevice and
\* deauthorizeUserForDevice, each id in a device's authorizedUsers is the id
\* of a user of the user collection.
C15_NoBrokenReference ==
  StartedEmpty => Consistent(DocOf(Mem, store))

\* deleteUser leaves no reference to the user it deletes
C15_DeleteUserLeavesNoReference ==
  [][\A u \in deletedUsers' \ deletedUsers :
       Has(Mem, "devices")' =>
         \A i \in DOMAIN store'.devices :
           u \notin Range(heap'[store'.devices[i]].authorizedUsers)]_vars

\* this step is a call of deleteDevice that found its device and went on to
\* the save
DeleteDeviceCalled ==
  /\ Len(awaiting') = Len(awaiting) + 1
  /\ awaiting'[Len(awaiting')].who.op = "deleteDevice"

\* C16: deleteDevice(D) for an existing device D returns true, and afterwards
\* D is not in the device collection and the log mapping has no bucket for
\* D's id.
C16_DeleteDeviceReturnsTrue ==
  \A r \in lastRet.rets :
    (r.op = "deleteDevice" /\ lastRet.vers # {})
      => /\ r.val = "true"
         /\ ~Resolves(r.args[1])
         /\ Has(Mem, "logs") => r.args[1] \notin DOMAIN store.logs

\* what deleteDevice(D) does to the memory: D is gone with its bucket, the
\* active device is the first remaining one or none if D was active and is
\* unchanged otherwise, users and the other devices are unchanged
C16_DeleteDeviceStep ==
  [][DeleteDeviceCalled =>
       LET D    == awaiting'[Len(awaiting')].who.args[1]
           old  == DocOf(Mem, store)
           new  == DocOf(Mem, store)'
       IN  /\ new.devices = Filter(old.devices, LAMBDA d : d.id # D)
           /\ D \notin DOMAIN new.logs
           /\ \A b \in DOMAIN old.logs \ {D} :
                b \in DOMAIN new.logs /\ new.logs[b] = old.logs[b]
           /\ new.users = old.users
           /\ ActiveOf(new.globalSettings) =
                IF ActiveOf(old.globalSettings) # D
                THEN ActiveOf(old.globalSettings)
                ELSE IF new.devices # <<>> THEN new.devices[1].id
                ELSE "none"]_vars

\* getDeviceUsers(deviceId): the users the device authorizes
getDeviceUsers(m, deviceId) ==
  LET a == FindDevice(m, deviceId)
  IN  IF a = 0 THEN <<>>
      ELSE Filter(m.store.users,
                  LAMBDA u : u.id \in Range(m.heap[a].authorizedUsers))

\* C17: after deleteUser(U), and after any later sequence of store mutators,
\* getDeviceUsers(d) returns no user with U's id, for any device d.
C17_DeletedUserNeverReturned ==
  (Has(Mem, "devices") /\ Has(Mem, "users")) =>
    \A U \in deletedUsers :
      \A i \in DOMAIN StoreDeviceIds :
        \A u \in Range(getDeviceUsers(Mem, StoreDeviceIds[i])) : u.id # U

\* at the step of deleteUser(U), U leaves the user collection
C17_DeleteUserRemoves ==
  [][\A U \in deletedUsers' \ deletedUsers :
       Has(Mem, "users")' =>
         \A i \in DOMAIN store'.users : store'.users[i].id # U]_vars

\* the authorization toggles
Toggles == {"authorizeUserForDevice", "deauthorizeUserForDevice"}

\* this step is a call of the method op with the arguments args
CallStep(op, args) ==
  /\ nCalls' = nCalls + 1
  /\ \/ /\ Len(awaiting') = Len(awaiting) + 1
        /\ awaiting'[Len(awaiting')].who.op = op
        /\ awaiting'[Len(awaiting')].who.args = args
     \/ /\ awaiting' = awaiting
        /\ \E r \in lastRet'.rets : r.op = op /\ r.args = args

\* the step changes neither the memory nor the storage, and issues no write
ChangesNothing ==
  /\ UNCHANGED <<store, initialState, storeObj, shared, heap, storage>>
  /\ UNCHANGED <<savePromise, pendingWrites, writesIssued, awaiting>>

\* how many times userId is in the authorizedUsers of the device deviceId
Membership(m, deviceId, userId) ==
  LET a == FindDevice(m, deviceId)
  IN  IF a = 0 THEN 0
      ELSE Cardinality({i \in DOMAIN m.heap[a].authorizedUsers :
                          m.heap[a].authorizedUsers[i] = userId})

\* C18: a call of authorizeUserForDevice(d,u) or deauthorizeUserForDevice(d,u)
\* made right after the same call has returned, nothing else being in
\* progress, returns false and changes nothing, u being once in d's
\* authorizedUsers after the two authorize calls and not at all after the two
\* deauthorize calls; and a toggle that returns false changes no state and
\* issues no storage write.
C18_TogglesIdempotent ==
  [][/\ \A r \in lastRet.rets :
          (/\ r.op \in Toggles
           /\ r.val \in {"true", "false"}
           /\ Cardinality(lastRet.rets) = 1
           /\ awaiting = <<>>
           /\ CallStep(r.op, r.args))
            => /\ lastRet'.rets = {Returned(r, "false")}
               /\ ChangesNothing
               /\ FindDevice(Mem, r.args[1]) # 0 =>
                    Membership(Mem, r.args[1], r.args[2]) =
                      IF r.op = "authorizeUserForDevice" THEN 1 ELSE 0
     /\ \A r \in lastRet'.rets :
          (r.op \in Toggles /\ r.val = "false" /\ nCalls' = nCalls + 1)
            => ChangesNothing]_vars

\* authorizeUserForDevice('d1', 'u2') returned true and the same call, made
\* next, has returned false: u2, which only that call can have authorized,
\* is authorized for d1, two calls were made and none is in progress
C18_Witness ==
  /\ nCalls = 2
  /\ writesIssued = 1
  /\ awaiting = <<>>
  /\ lastRet.rets = {[op |-> "authorizeUserForDevice", args |-> <<"d1", "u2">>,
                      val |-> "false"]}
  /\ Membership(Mem, "d1", "u2") = 1

-----------------------------------------------------------------------------
(* The cap of the log buckets *)

\* C19: in every reachable state of the store every log bucket holds at most
\* 200 entries, also after the migration of a legacy log list of any length.
C19_LogCap ==
  Has(Mem, "logs") =>
    \A b \in DOMAIN store.logs : Len(store.logs[b]) <= LogCap

\* a store whose bucket d1 is full
FullBucket ==
  Load(Constructed,
       [DocA EXCEPT !.logs = MapPut(EmptyMap, "d1", SubSeq(LongLogs, 1, LogCap))])

\* addDeviceLog on a full bucket places the new entry first and drops the last
C19_AddOnFullBucket ==
  LET old == FullBucket.store.logs["d1"]
      new == addDeviceLogSync(FullBucket, "d1", "g").m.store.logs["d1"]
  IN  /\ Len(old) = LogCap
      /\ new = <<"g">> \o SubSeq(old, 1, LogCap - 1)

-----------------------------------------------------------------------------
(* Not found *)

NotFoundOps ==
  {"updateDevice", "updateUser", "deleteDevice", "deleteUser",
   "setActiveDevice", "authorizeUserForDevice", "deauthorizeUserForDevice",
   "clearDeviceLogs"}

\* the arguments with which a call of op finds nothing: an id no device or
\* user has; for clearDeviceLogs a blank id or an id without a bucket
NotFoundArgs(op) ==
  IF op \in Toggles
  THEN {<<AbsentId, u>> : u \in KnownUserIds \cup {AbsentId}}
  ELSE IF op = "clearDeviceLogs"
  THEN {<<d>> : d \in {d \in KnownDeviceIds \cup {"", AbsentId} :
                         Has(Mem, "logs") => d \notin DOMAIN store.logs}}
  ELSE {<<AbsentId>>}

\* a call of a method of ops that finds nothing leaves the in-memory AppData
\* unchanged and returns null or false, at once or after its save
NotFoundNegative(ops) ==
  /\ \A op \in ops : \A args \in NotFoundArgs(op) :
       CallStep(op, args) =>
         /\ DocOf(Mem, store)' = DocOf(Mem, store)
         /\ awaiting' = awaiting =>
              \A r \in lastRet'.rets :
                (r.op = op /\ r.args = args) => r.val = EarlyRet(op)
  /\ Len(awaiting') < Len(awaiting) =>
       \A r \in lastRet'.rets :
         (r.op \in ops /\ r.args[1] \in {AbsentId, ""})
           => r.val = EarlyRet(r.op)

\* C20: on an initialized store, updateDevice, updateUser, deleteDevice,
\* deleteUser, setActiveDevice, authorizeUserForDevice and
\* deauthorizeUserForDevice called with an absent id, and clearDeviceLogs
\* called with a blank id or an id without a bucket, leave the in-memory
\* AppData unchanged and return null or false, never throwing.
C20_NotFoundIsNegative ==
  [][isInitialized => NotFoundNegative(NotFoundOps)]_vars

\* the same on a store that holds an AppData, for the methods other than
\* deleteUser
C20_NotFoundOnAppData ==
  [][store.k = "app" => NotFoundNegative(NotFoundOps \ {"deleteUser"})]_vars

-----------------------------------------------------------------------------
(* SMS commands and their log entries *)

Upper ==
  {"A", "B", "C", "D", "E", "F", "G", "H", "I", "J", "K", "L", "M", "N", "O",
   "P", "Q", "R", "S", "T", "U", "V", "W", "X", "Y", "Z"}

\* the options of formatSMSCommand; <<>> for a field that is not given
Options(serial, phone, startTime, endTime, accessType, latchTime, adminNumber) ==
  [serial |-> serial, phone |-> phone, startTime |-> startTime,
   endTime |-> endTime, accessType |-> accessType, latchTime |-> latchTime,
   adminNumber |-> adminNumber]

NoOptions == Options(<<>>, <<>>, <<>>, <<>>, <<>>, <<>>, <<>>)

\* String.prototype.padStart(n, c)
RECURSIVE PadStart(_, _, _)
PadStart(s, n, c) == IF Len(s) >= n THEN s ELSE PadStart(<<c>> \o s, n, c)

\* formatSMSCommand(password, commandType, options)
formatSMSCommand(password, commandType, options) ==
  CASE commandType = "OPEN" -> password \o <<"C", "C">>
    [] commandType = "CLOSE" -> password \o <<"D", "D">>
    [] commandType = "STATUS" -> password \o <<"E", "E">>
    [] commandType = "ADD_USER" ->
         password \o <<"A">> \o options.serial \o <<"#">> \o options.phone
           \o <<"#">> \o options.startTime \o <<"#">> \o options.endTime
           \o <<"#">>
    [] commandType = "DELETE_USER" ->
         password \o <<"A">> \o options.serial \o <<"#", "#">>
    [] commandType = "SET_ACCESS" -> password \o options.accessType \o <<"#">>
    [] commandType = "SET_LATCH" ->
         password \o <<"G", "O", "T">> \o PadStart(options.latchTime, 3, "0")
           \o <<"#">>
    [] commandType = "REGISTER_ADMIN" ->
         password \o <<"T", "E", "L">> \o options.adminNumber \o <<"#">>

AllDigits(s) == \A i \in DOMAIN s : s[i] \in Digits

\* s from i on starts with four digits, the letters word and three digits:
\* /\d{4}<word>(\d{3})/
DigitsWordDigits(s, i, word) ==
  /\ i + 6 + Len(word) <= Len(s)
  /\ AllDigits(SubSeq(s, i, i + 3))
  /\ SubSeq(s, i + 4, i + 3 + Len(word)) = word
  /\ AllDigits(SubSeq(s, i + 4 + Len(word), i + 6 + Len(word)))

\* the end of the run of characters other than '#' that starts at i
RECURSIVE RunEnd(_, _)
RunEnd(s, i) == IF i <= Len(s) /\ s[i] # "#" THEN RunEnd(s, i + 1) ELSE i

\* the first match of /\d{4}A(\d{3})##/: its captured serial, <<>> for none
RemovedSerial(s) ==
  LET at(i) == /\ DigitsWordDigits(s, i, <<"A">>)
               /\ i + 9 <= Len(s) /\ s[i + 8] = "#" /\ s[i + 9] = "#"
  IN  IF \E i \in DOMAIN s : at(i)
      THEN LET i == CHOOSE i \in DOMAIN s : at(i) /\ \A j \in 1..(i - 1) : ~at(j)
           IN  SubSeq(s, i + 5, i + 7)
      ELSE <<>>

\* the first match of /\d{4}A(\d{3})#([^#]+)#/: [ok, serial, phone]
AddedMatch(s) ==
  LET at(i) == /\ DigitsWordDigits(s, i, <<"A">>)
               /\ i + 8 <= Len(s) /\ s[i + 8] = "#"
               /\ RunEnd(s, i + 9) > i + 9
               /\ RunEnd(s, i + 9) <= Len(s)
  IN  IF \E i \in DOMAIN s : at(i)
      THEN LET i == CHOOSE i \in DOMAIN s : at(i) /\ \A j \in 1..(i - 1) : ~at(j)
           IN  [ok |-> TRUE, serial |-> SubSeq(s, i + 5, i + 7),
                phone |-> SubSeq(s, i + 9, RunEnd(s, i + 9) - 1)]
      ELSE [ok |-> FALSE, serial |-> <<>>, phone |-> <<>>]

\* the first match of /\d{4}GOT(\d{3})#/: its captured seconds, <<>> for none
GotSeconds(s) ==
  LET at(i) == /\ DigitsWordDigits(s, i, <<"G", "O", "T">>)
               /\ i + 10 <= Len(s) /\ s[i + 10] = "#"
  IN  IF \E i \in DOMAIN s : at(i)
      THEN LET i == CHOOSE i \in DOMAIN s : at(i) /\ \A j \in 1..(i - 1) : ~at(j)
           IN  SubSeq(s, i + 7, i + 9)
      ELSE <<>>

\* the decimal digits of parseInt(s || '0', 10), s being digits
RECURSIVE ParseIntDigits(_)
ParseIntDigits(s) ==
  IF s = <<>> THEN <<"0">>
  ELSE IF Len(s) > 1 /\ s[1] = "0" THEN ParseIntDigits(Tail(s))
  ELSE s

\* command.replace(/\d{4}[A-Z]/g, '****') from i on
RECURSIVE MaskPassword(_, _)
MaskPassword(s, i) ==
  IF i > Len(s) THEN <<>>
  ELSE IF i + 4 <= Len(s) /\ AllDigits(SubSeq(s, i, i + 3))
          /\ s[i + 4] \in Upper
  THEN <<"*", "*", "*", "*">> \o MaskPassword(s, i + 5)
  ELSE <<s[i]>> \o MaskPassword(s, i + 1)

\* The details of a log entry: the fixed text, named by its first words, and
\* the values set into it, in order
Details(text, parts) == [text |-> text, parts |-> parts]

LogOf(action, details) == [action |-> action, details |-> details]

\* logSMSOperation(deviceId, command): the action and the details it passes
\* to addDeviceLog
logSMSOperation(command) ==
  LET has(word) == Includes(command, word)
  IN  IF has(<<"C", "C">>)
      THEN LogOf("Gate Open", Details("Opened gate", <<>>))
      ELSE IF has(<<"D", "D">>)
      THEN LogOf("Gate Close", Details("Closed gate", <<>>))
      ELSE IF has(<<"P">>) /\ Len(command) = 8
      THEN LogOf("Password Change", Details("Changed device password", <<>>))
      ELSE IF has(<<"E", "E">>)
      THEN LogOf("Status Check", Details("Requested device status", <<>>))
      ELSE IF has(<<"T", "E", "L">>)
      THEN LogOf("Admin Registration",
                 Details("Registered admin phone number", <<>>))
      ELSE IF has(<<"A">>) /\ ~has(<<"A", "L", "L">>) /\ ~has(<<"A", "U", "T">>)
      THEN LogOf("User Management",
                 IF has(<<"#", "#">>)
                 THEN Details("Removed authorized user from position",
                              <<RemovedSerial(command)>>)
                 ELSE IF AddedMatch(command).ok
                 THEN Details("Added user",
                              <<AddedMatch(command).phone,
                                AddedMatch(command).serial>>)
                 ELSE Details("command", <<MaskPassword(command, 1)>>))
      ELSE IF has(<<"A", "U", "T">>)
      THEN LogOf("Access Control", Details("Set to authorized users only", <<>>))
      ELSE IF has(<<"A", "L", "L">>)
      THEN LogOf("Access Control", Details("Set to allow all callers", <<>>))
      ELSE IF has(<<"G", "O", "T">>)
      THEN LogOf("Relay Timing",
                 LET seconds == GotSeconds(command)
                 IN  IF seconds = <<"0", "0", "0">>
                     THEN Details("Set relay to momentary mode", <<>>)
                     ELSE IF seconds = <<"9", "9", "9">>
                     THEN Details("Set relay to toggle mode", <<>>)
                     ELSE Details("Set relay to close for",
                                  <<ParseIntDigits(seconds)>>))
      ELSE LogOf("GSM Command", Details("command", <<MaskPassword(command, 1)>>))

\* Commands the app sends: a password, a command type and its options
Passwords == {<<"1", "2", "3", "4">>, <<"0", "0", "0", "0">>}

SmsInput(password, commandType, options) ==
  [password |-> password, commandType |-> commandType, options |-> options]

SmsOptions ==
  [OPEN |-> {NoOptions},
   CLOSE |-> {NoOptions},
   STATUS |-> {NoOptions},
   ADD_USER |->
     {Options(<<"0", "0", "1">>, <<"0", "4", "5">>, st, en, <<>>, <<>>, <<>>) :
        st \in {<<>>, <<"2", "4", "0", "1">>}, en \in {<<>>, <<"2", "4", "1", "2">>}},
   DELETE_USER |->
     {Options(<<"0", "0", "1">>, <<>>, <<>>, <<>>, <<>>, <<>>, <<>>)},
   SET_ACCESS |->
     {Options(<<>>, <<>>, <<>>, <<>>, ac, <<>>, <<>>) :
        ac \in {<<"A", "L", "L">>, <<"A", "U", "T">>}},
   SET_LATCH |->
     {Options(<<>>, <<>>, <<>>, <<>>, <<>>, lt, <<>>) :
        lt \in {<<"0">>, <<"5">>, <<"9", "9", "9">>}},
   REGISTER_ADMIN |->
     {Options(<<>>, <<>>, <<>>, <<>>, <<>>, <<>>, <<"0", "4", "5">>)}]

SmsInputs ==
  UNION {{SmsInput(p, t, o) : p \in Passwords, o \in SmsOptions[t]} :
           t \in DOMAIN SmsOptions}

CommandOf(in) == formatSMSCommand(in.password, in.commandType, in.options)

\* DataStore.logSMSOperation(deviceId, command), up to the await in
\* addDeviceLog
LogSMSOperation ==
  \E in \in SmsInputs, d \in KnownDeviceIds \cup {""} :
    \E r \in {logSMSOperation(CommandOf(in))} :
      /\ Has(Mem, "logs") =>
           \A b \in DOMAIN store.logs : Len(store.logs[b]) < MaxLogs
      /\ Mutator(addDeviceLogSync(Mem, d,
                   [id |-> NewId("g"), action |-> r.action,
                    details |-> r.details]),
                 Call("logSMSOperation", <<d, CommandOf(in)>>, 0))
      /\ idCtr' = idCtr + 1

InitSms ==
  /\ NoCalls
  /\ MemIs(Constructed)
  /\ isInitialized = FALSE
  /\ storage = EmptyMap

NextSms ==
  \/ LogSMSOperation
  \/ WriteSucceeds
  \/ WriteFails

SpecSms == InitSms /\ [][NextSms]_vars

\* the action the entry of a command of the type must carry
KindAction ==
  [OPEN |-> "Gate Open", CLOSE |-> "Gate Close", STATUS |-> "Status Check",
   ADD_USER |-> "User Management", DELETE_USER |-> "User Management",
   SET_ACCESS |-> "Access Control", SET_LATCH |-> "Relay Timing",
   REGISTER_ADMIN |-> "Admin Registration"]

\* the entry is that of a command of the type of in, and its details do not
\* hold the password
RightEntry(in, e) ==
  /\ e.action = KindAction[in.commandType]
  /\ in.commandType = "ADD_USER" => e.details.text = "Added user"
  /\ in.commandType = "DELETE_USER" =>
       e.details.text = "Removed authorized user from position"
  /\ \A i \in DOMAIN e.details.parts :
       ~Includes(e.details.parts[i], in.password)

\* the entry that a call of logSMSOperation with the command of one of the
\* inputs ins, made at this step, puts first in its bucket is the right one
LogsRightEntry(ins) ==
  \A in \in ins : \A d \in KnownDeviceIds \cup {""} :
    CallStep("logSMSOperation", <<d, CommandOf(in)>>)
      => RightEntry(in, Head(store'.logs[IF d = "" THEN "system" ELSE d]))

\* C21: for every command of the documented formats, with any password and
\* field values, an add-user command with empty start and end fields
\* included, logSMSOperation records the action of the command's own kind,
\* with an 'Added user' detail for an add-user command and a 'Removed' detail
\* for a delete-user command, and details that do not contain the password.
C21_LogClassification == [][LogsRightEntry(SmsInputs)]_vars

\* the same, for the commands other than the add-user commands with an empty
\* start or end field
C21_OtherCommands ==
  [][LogsRightEntry({in \in SmsInputs :
                       in.commandType = "ADD_USER"
                         => (in.options.startTime # <<>>
                             /\ in.options.endTime # <<>>)})]_vars

-----------------------------------------------------------------------------
(* The merge rules of a restore *)

\* the device list of a document, empty when it has none
DeviceList(d) ==
  IF d.k = "app" /\ "devices" \in d.has THEN d.devices ELSE <<>>

\* the on-device devices, then the backup devices whose id is not on the
\* device
MergedDevices(on, bk) ==
  DeviceList(on)
    \o Filter(DeviceList(bk), LAMBDA d : d.id \notin DeviceIds(on))

\* C22: in a merging restore the resulting device list is the on-device
\* devices, unchanged and in their order, followed by the backup devices
\* whose id is not among the on-device ids, in backup order.
C22_DeviceMergeRule ==
  MergingRestoreDone =>
    DeviceList(CanonicalOf(storage))
      = MergedDevices(CanonicalOf(rst.s0), BackupDoc)

\* the same, when the backup's document has a device list
C22_WhenBackupHasDevices ==
  (MergingRestoreDone /\ "devices" \in BackupDoc.has) =>
    DeviceList(CanonicalOf(storage))
      = MergedDevices(CanonicalOf(rst.s0), BackupDoc)

\* the bucket the log merge rule gives a device id: the backup entries not
\* on the device, then the on-device entries
MergedBucket(onLogs, bkLogs, deviceId) ==
  IF deviceId \notin DOMAIN bkLogs THEN onLogs[deviceId]
  ELSE IF deviceId \notin DOMAIN onLogs THEN bkLogs[deviceId]
  ELSE Filter(bkLogs[deviceId], LAMBDA e : e \notin Range(onLogs[deviceId]))
         \o onLogs[deviceId]

\* the buckets of the result are the rule's
BucketsMerged(res, on, bk) ==
  /\ DOMAIN LogsOf(res) = DOMAIN LogsOf(on) \cup DOMAIN LogsOf(bk)
  /\ \A deviceId \in DOMAIN LogsOf(res) :
       LogsOf(res)[deviceId] = MergedBucket(LogsOf(on), LogsOf(bk), deviceId)

\* C23: in a merging restore a bucket on both sides becomes the backup
\* entries whose id is not on the device followed by the on-device entries,
\* a bucket only on the device is kept and a bucket only in the backup is
\* adopted.
C23_LogMergeRule ==
  MergingRestoreDone =>
    BucketsMerged(CanonicalOf(storage), CanonicalOf(rst.s0), BackupDoc)

\* the same, when the backup's document has a device list and a log mapping
C23_WhenBackupHasDevicesAndLogs ==
  (MergingRestoreDone /\ {"devices", "logs"} \subseteq BackupDoc.has) =>
    BucketsMerged(CanonicalOf(storage), CanonicalOf(rst.s0), BackupDoc)

-----------------------------------------------------------------------------
(* Storage around a restore *)

\* the keys of the data restoreFromBackup stores
StoredKeys ==
  LET p == ParseStage(rst.input)
  IN  IF p.ok THEN {Entries(p.data)[i][1] : i \in DOMAIN Entries(p.data)}
      ELSE {}

\* the per-device log keys of the storage st
LogKeys(st) ==
  {key \in DOMAIN st :
     Len(key) > Len(K_app_logs) + 1
       /\ SubSeq(key, 1, Len(K_app_logs) + 1) = K_app_logs \o <<"_">>}

\* restoreFromBackup returned true and every write went through
RestoreSucceeded ==
  rst.pc = "done" /\ rst.result = "true" /\ ~writeFailed

\* C24: a per-device log key that is in storage before restoreFromBackup and
\* is not a key of the backup is in storage, with the same value, after a
\* successful restore.
C24_LogKeysSurvive ==
  RestoreSucceeded =>
    \A key \in LogKeys(rst.s0) \ StoredKeys :
      key \in DOMAIN storage /\ storage[key] = rst.s0[key]

-----------------------------------------------------------------------------
(* Boundary recovery *)

RECURSIVE FirstClose(_, _, _)
\* the position of the brace at which the nesting depth of s, followed from
\* i on, first returns to zero; 0 when it never does
FirstClose(s, i, depth) ==
  IF i > Len(s) THEN 0
  ELSE IF s[i] = "{" THEN FirstClose(s, i + 1, depth + 1)
  ELSE IF s[i] = "}"
  THEN IF depth - 1 = 0 THEN i ELSE FirstClose(s, i + 1, depth - 1)
  ELSE FirstClose(s, i + 1, depth)

\* the text from its earliest start marker on
FromStart(cs) ==
  LET p  == Trim(cs)
      js == JsonStart(p)
  IN  IF js > 1 THEN SubSeq(p, js, Len(p)) ELSE p

\* the text from its earliest start marker to its first top-level close
CutAtFirstClose(cs) ==
  LET q  == FromStart(cs)
      fc == FirstClose(q, 1, 0)
  IN  IF fc > 0 THEN SubSeq(q, 1, fc) ELSE q

\* restoreFromBackup was given the characters of a text
GivenChars == RestoreCalled /\ rst.input.t = "chars"

\* the texts in which no opening brace follows the first top-level close
NoBraceOpensAfter(cs) ==
  LET q == FromStart(cs)
  IN  \A i \in DOMAIN q : q[i] = "{" => i < FirstClose(q, 1, 0)

CleanDocuments ==
  { <<"{", Quote, "a", Quote, ":", "1", "}">>,
    <<"{", Quote, "a", Quote, ":", "{", Quote, "b", Quote, ":", "{", "}",
      "}", "}">> }

\* the text cs, from its earliest start marker on, begins with the document
BeginsWith(cs, doc) ==
  LET q == FromStart(cs)
  IN  Len(q) >= Len(doc) /\ SubSeq(q, 1, Len(doc)) = doc

\* the text is cut at its first top-level close, and a document with noise
\* around it is parsed to the data of the document alone
RecoversBoundary(cs) ==
  /\ BoundaryRecover(cs) = CutAtFirstClose(cs)
  /\ \A doc \in CleanDocuments :
       BeginsWith(cs, doc)
         => ParseStage(CharText(cs)) = ParseStage(CharText(doc))

\* C25: boundary recovery trims the text to its earliest start marker and
\* cuts it where the brace nesting depth first returns to zero, whatever
\* follows, so that a valid document with noise before and after it yields
\* the parsed data of the document alone.
C25_CutsAtFirstClose ==
  GivenChars => RecoversBoundary(rst.input.cs)

\* the same, for the texts in which no opening brace follows the first
\* top-level close
C25_CutsWhenNoBraceOpensAfter ==
  (GivenChars /\ NoBraceOpensAfter(rst.input.cs))
    => RecoversBoundary(rst.input.cs)

-----------------------------------------------------------------------------
(* The conversion of legacy users *)

\* the records of the legacy user list in storage, none when the item is
\* absent or is not a list
LegacyRecords ==
  IF HasLegacy(K_authorizedUsers)
     /\ ParseText(storage[K_authorizedUsers]).ok
     /\ ParseText(storage[K_authorizedUsers]).v.k = "legacyUsers"
  THEN ParseText(storage[K_authorizedUsers]).v.items
  ELSE <<>>

\* the legacy user list in storage is a text JSON.parse rejects
LegacyUsersUnparsable ==
  HasLegacy(K_authorizedUsers) /\ ~ParseText(storage[K_authorizedUsers]).ok

\* this step is the return of an initialize call whose migration awaited pc
ReturnsFrom(pc) ==
  /\ InitializeReturns
  /\ \E i \in DOMAIN ini : ini[i].pc = pc
  /\ store.k = "app" /\ store'.k = "app"

\* d has one user for each legacy record with a phone or a serial, in the
\* order of the records and authorized for the migrated device
UsersConverted(d) ==
  LET kept == Filter(LegacyRecords,
                     LAMBDA r : r.phone # "" \/ r.serial # "")
  IN  /\ Len(d.devices) = 1
      /\ Len(d.users) = Len(kept)
      /\ \A i \in DOMAIN kept :
           /\ d.users[i].name =
                (IF kept[i].name # "" THEN kept[i].name ELSE "Unnamed User")
           /\ d.users[i].id \in Range(d.devices[1].authorizedUsers)

\* the legacy logs, admin number and completed steps are in d, and d is the
\* document under the canonical key
RestMigrated(d, st) ==
  /\ Len(d.devices) = 1
  /\ HasLegacy(K_app_logs) /\ ParseText(storage[K_app_logs]).ok
       /\ ParseText(storage[K_app_logs]).v.k = "legacyLogs"
       => /\ d.devices[1].id \in DOMAIN d.logs
          /\ d.logs[d.devices[1].id] = ParseText(storage[K_app_logs]).v.items
  /\ HasLegacy(K_adminNumber)
       => d.globalSettings.adminNumber = storage[K_adminNumber].cs
  /\ CanonicalOf(st) = d

\* C26: legacy migration skips only the legacy user records that have
\* neither phone nor serial and converts every other one into a user
\* authorized for the migrated device; a legacy user list that does not
\* parse is skipped alone, the rest is migrated and the AppData is written
\* to the canonical key.
C26_LegacyUserConversion ==
  [][/\ (ReturnsFrom("saving") /\ ~LegacyUsersUnparsable)
          => UsersConverted(DocOf(Mem, store)')
     /\ (InitializeReturns /\ LegacyUsersUnparsable /\ MigrateReads)
          => RestMigrated(DocOf(Mem, store)', storage')]_vars

\* the records with both a phone and a serial are converted, and the rest of
\* a migration that reached its save is in the store
C26_ConvertsCompleteRecords ==
  [][ReturnsFrom("saving")
       => LET d    == DocOf(Mem, store)'
              kept == Filter(LegacyRecords,
                             LAMBDA r : r.phone # "" /\ r.serial # "")
          IN  /\ Len(d.devices) = 1
              /\ Len(d.users) = Len(kept)
              /\ \A i \in DOMAIN kept :
                   d.users[i].id \in Range(d.devices[1].authorizedUsers)
              /\ ~writeFailed' => RestMigrated(d, storage')]_vars

\* restoreFromBackup raised an error
RestoreThrew == rst.pc = "done" /\ rst.result = "threw"

\* C27: whenever restoreFromBackup raises an error, the commit check
\* included, the storage holds the keys and values it held before the call.
C27_FailedRestoreLeavesStorage ==
  RestoreThrew => storage = rst.s0

\* the same, for the calls that raise before the clearing stage or that had
\* no key to clear
C27_UntouchedWhenNothingCleared ==
  (RestoreThrew /\ rst.toRemove = {}) => storage = rst.s0

-----------------------------------------------------------------------------
(* A mutator called while restoreFromBackup is in progress *)

\* restoreFromBackup was called and has not returned
RestoreInProgress == rst.pc \notin {"idle", "done"}

\* addDevice, called at one of the awaits of the restore
AddDeviceDuringRestore == RestoreInProgress /\ AddDevice

\* the store initialized over a canonical document
InitRace ==
  /\ NoCalls
  /\ MemIs(Load(Constructed, DocA))
  /\ isInitialized = TRUE
  /\ storage = MapPut(EmptyMap, K_app_data, JsonText(DocA))

NextRace ==
  \/ RestoreBackupFile
  \/ RestoreReadsExisting
  \/ RestoreListsKeys
  \/ RestoreClears
  \/ RestoreWrites
  \/ InitReads
  \/ AddDeviceDuringRestore
  \/ WriteSucceeds

SpecRace == InitRace /\ [][NextRace]_vars

\* the document restoreFromBackup wrote under the canonical key
RestoredDoc == Lookup(rst.data, K_app_data)

\* restoreFromBackup returned true having written the canonical key, and
\* every save of the store has settled
RestoreAndSavesDone ==
  /\ rst.pc = "done" /\ rst.result = "true"
  /\ K_app_data \in rst.wrote
  /\ pendingWrites = {} /\ awaiting = <<>>

\* every device and every log entry of the document w is in the document d
Contains(d, w) ==
  /\ DeviceIds(w) \subseteq DeviceIds(d)
  /\ \A deviceId \in DOMAIN LogsOf(w) :
       /\ deviceId \in DOMAIN LogsOf(d)
       /\ Range(LogsOf(w)[deviceId]) \subseteq Range(LogsOf(d)[deviceId])

\* C28: when a mutator was called while restoreFromBackup was in progress,
\* once both have completed the canonical document in storage contains the
\* devices and logs the restore wrote.
C28_RestoreNotClobbered ==
  (RestoreAndSavesDone /\ nCalls > 0)
    => Contains(CanonicalOf(storage), RestoredDoc)

\* the same, when no mutator was called during the restore
C28_RestoreAloneKeepsDocument ==
  (RestoreAndSavesDone /\ nCalls = 0)
    => Contains(CanonicalOf(storage), RestoredDoc)

-----------------------------------------------------------------------------
(* initialize and the mutations made before it completes *)

\* every device in memory before the step is in memory after it
KeepsDevices == Range(StoreDeviceIds) \subseteq Range(StoreDeviceIds')

\* C29: initialize never discards a mutation: the device addDevice returns
\* is in the in-memory AppData when it returns, and the completion of an
\* initialize call removes no device of a mutator that has returned.
C29_InitializeKeepsMutations ==
  [][/\ \A r \in lastRet'.rets :
          (r.op = "addDevice" /\ r.val = "value") => Resolves(r.args[1])'
     /\ (InitializeReturns /\ awaiting = <<>>) => KeepsDevices]_vars

\* no other step than the completion of an initialize call removes a device
\* from memory
C29_OnlyInitializeDiscards ==
  [][~InitializeReturns => KeepsDevices]_vars

-----------------------------------------------------------------------------
(* The active device *)

\* partials of updateGlobalSettings that carry an activeDeviceId
ActiveUpdates ==
  {[activeDeviceId |-> id] : id \in KnownDeviceIds \cup {AbsentId}}

\* updateGlobalSettings({ activeDeviceId })
UpdateActiveDeviceId ==
  \E u \in ActiveUpdates :
    /\ Mutator(updateGlobalSettingsSync(Mem, u),
               Call("updateGlobalSettings", <<u.activeDeviceId>>, 0))
    /\ UNCHANGED idCtr

InitActive ==
  /\ NoCalls
  /\ \/ /\ MemIs(Constructed)
        /\ isInitialized = FALSE
        /\ storage = EmptyMap
     \/ /\ MemIs(Load(Constructed, DocA))
        /\ isInitialized = TRUE
        /\ storage = MapPut(EmptyMap, K_app_data, JsonText(DocA))

NextActive ==
  \/ AddDevice
  \/ DeleteDevice
  \/ SetActiveDevice
  \/ UpdateActiveDeviceId
  \/ WriteSucceeds
  \/ WriteFails

SpecActive == InitActive /\ [][NextActive]_vars

\* globalSettings.activeDeviceId is none or the id of a device of the
\* device collection
ActiveDeviceExists ==
  Has(Mem, "globalSettings") =>
    \/ ActiveOf(store.globalSettings) = "none"
    \/ Resolves(ActiveOf(store.globalSettings))

\* C30: in every reachable state of the store, after any sequence of
\* addDevice, deleteDevice, setActiveDevice and updateGlobalSettings,
\* globalSettings.activeDeviceId is none or the id of a device in the device
\* collection.
C30_ActiveDeviceExists == ActiveDeviceExists

\* every step that is not a call of updateGlobalSettings keeps the active
\* device among the devices
C30_OtherStepsKeepActive ==
  [][(ActiveDeviceExists
        /\ ~\E u \in ActiveUpdates :
              CallStep("updateGlobalSettings", <<u.activeDeviceId>>))
       => ActiveDeviceExists']_vars

====
